---- MODULE Spec2Model ----
(***************************************************************************)
(* Model of the gilgamesh analysis engine: the ROM image, the instruction  *)
(* decoder, the symbolic stack, the subroutine bookkeeping, the recursive  *)
(* CPU walker and the Analysis driver (run, user edits, local labels).     *)
(* The C++ recursion (a walker spawning a copy and running it to           *)
(* completion) is modelled by an explicit sequence of walker frames.       *)
(***************************************************************************)
EXTENDS Integers, Sequences, FiniteSets, TLC

VARIABLES
  rom,           \* ROM image: [romType, data] (data: file offset -> byte)
  entryPoints,   \* Analysis::entryPoints (user data)
  assertions,    \* Analysis::assertions: PCPair -> Assertion (user data)
  comments,      \* Analysis::comments: pc -> text (user data)
  customLabels,  \* Analysis::customLabels: PCPair -> label (user data)
  jumpTables,    \* Analysis::jumpTables: caller pc -> JumpTable
  instructions,  \* Analysis::instructions: identity -> [opcode, argument, label]
  subroutines,   \* Analysis::subroutines: pc -> Subroutine
  references,    \* Analysis::references: set of <<source, target, subroutinePC>>
  cpus,          \* the walkers alive: the C++ call stack of CPU::run frames
  pending,       \* entry points Analysis::run has still to walk
  runState,      \* "idle" | "walking" | "done" | "crashed"
  runs,          \* number of runs started
  edits,         \* number of user edits made
  executed,      \* history: identities passed to CPU::execute in this run
  recorded,      \* history: <<subroutinePC, pc, stateChange>> of every addStateChange
  stackCase,     \* a Stack used on its own: [stack, mark, pushed, popped]
  romCase,       \* a ROM used on its own: [file, status, rom, op, ...]
  undoCase,      \* an edit made and undone between runs: [phase, order, first]
  changeCase     \* two StateChanges compared: [a, b, touched, compared]

\* The objects used on their own, outside an Analysis.
units == <<stackCase, romCase, undoCase, changeCase>>

vars == <<rom, entryPoints, assertions, comments, customLabels, jumpTables,
          instructions, subroutines, references, cpus, pending, runState,
          runs, edits, executed, recorded, units>>

\* Bounds of the exploration.
MaxRuns == 2
MaxEdits == 2

(***************************************************************************)
(* std::optional                                                           *)
(***************************************************************************)
Nullopt == <<>>
Some(v) == <<v>>
HasValue(o) == o /= <<>>
Value(o) == o[1]

\* Map helpers: insert_or_assign / operator[] and try_emplace.
Put(f, k, v) == (k :> v) @@ f
TryEmplace(f, k, v) == f @@ (k :> v)
EmptyMap == <<>>

(***************************************************************************)
(* Bit arithmetic on unsigned integers                                     *)
(***************************************************************************)
RECURSIVE BitAndN(_, _, _)
BitAndN(a, b, n) ==
  IF n = 0 THEN 0
  ELSE (a % 2) * (b % 2) + 2 * BitAndN(a \div 2, b \div 2, n - 1)

BitAnd(a, b) == BitAndN(a, b, 24)
BitAnd8(a, b) == BitAndN(a % 256, b % 256, 8)
BitOr(a, b) == a + b - BitAnd(a, b)
BitClear(a, mask) == a - BitAnd(a, mask)

(***************************************************************************)
(* ROM image                                                               *)
(***************************************************************************)
\* ROM::translate: SNES address -> file offset.
LoROMOffset(address) ==
  \* ((address & 0x7F0000) >> 1) | (address & 0x7FFF)
  ((address \div 65536) % 128) * 32768 + (address % 32768)

translate(romType, address) ==
  CASE romType = "LoROM" -> LoROMOffset(address)
    [] romType = "HiROM" -> address % \H400000
    [] romType = "ExLoROM" ->
         IF BitAnd(address, \H800000) /= 0
         THEN LoROMOffset(address)
         ELSE LoROMOffset(address) + \H400000
    [] romType = "ExHiROM" ->
         IF BitAnd(address, \HC00000) /= \HC00000
         THEN BitOr(address % \H400000, \H400000)
         ELSE address % \H400000
    [] romType = "SDD1" ->
         IF address >= \HC00000
         THEN address % \H400000
         ELSE LoROMOffset(address)

\* ROM::translateHeader.
translateHeader(romType, address) ==
  IF romType \in {"ExLoROM", "SDD1"} THEN \H800000 + address ELSE address

\* ROM::readByte. The image file is zero-filled (the test ROMs' `fill`), so
\* the data map only lists the non-zero bytes.
readByte(r, address) ==
  LET offset == translate(r.romType, address)
  IN IF offset \in DOMAIN r.data THEN r.data[offset] ELSE 0

\* A faulty readWord, for comparison: big-endian.
readWord_BigEndian(r, address) ==
  readByte(r, address) * 256 + readByte(r, address + 1)

\* ROM::readWord: little-endian 16 bits.
readWord(r, address) ==
  readByte(r, address + 1) * 256 + readByte(r, address)

\* ROM::readAddress: little-endian 24 bits.
readAddress(r, address) ==
  readByte(r, address + 2) * 65536 + readWord(r, address)

\* ROM::isRAM.
isRAM(address) ==
  (address <= \H001FFF) \/ (\H7E0000 <= address /\ address <= \H7FFFFF)

\* Header offsets (enum Header).
HeaderNMI == \HFFEA
HeaderRESET == \HFFFC

\* ROM::resetVector / ROM::nmiVector.
resetVector(r) == readWord(r, translateHeader(r.romType, HeaderRESET))
nmiVector(r) == readWord(r, translateHeader(r.romType, HeaderNMI))

(***************************************************************************)
(* State and StateChange                                                   *)
(***************************************************************************)
\* struct State: the processor status byte p; x is bit 4, m is bit 5.
MaskX == 16
MaskM == 32
StateM(p) == (p \div MaskM) % 2 = 1
StateX(p) == (p \div MaskX) % 2 = 1

\* State::State(bool m, bool x) and the default State() = State(true, true).
StateOf(m, x) == (IF m THEN MaskM ELSE 0) + (IF x THEN MaskX ELSE 0)
DefaultState == StateOf(TRUE, TRUE)

\* Assignment to the bit-fields state.m / state.x.
WithM(p, v) == IF v THEN BitOr(p, MaskM) ELSE BitClear(p, MaskM)
WithX(p, v) == IF v THEN BitOr(p, MaskX) ELSE BitClear(p, MaskX)

sizeA(p) == IF StateM(p) THEN 1 ELSE 2
sizeX(p) == IF StateX(p) THEN 1 ELSE 2

\* State::set / State::reset.
StateSet(p, mask) == BitOr(p, mask % 256)
StateReset(p, mask) == BitClear(p, mask % 256)

UnknownReasons ==
  {"Unknown", "SuspectInstruction", "MultipleReturnStates", "IndirectJump",
   "StackManipulation", "Recursion", "MutableCode"}

\* StateChange constructors.
StateChange(m, x) == [m |-> m, x |-> x, unknownReason |-> "Known"]
EmptyStateChange == StateChange(Nullopt, Nullopt)
StateChangeUnknown(reason) ==
  [m |-> Nullopt, x |-> Nullopt, unknownReason |-> reason]

unknown(sc) == sc.unknownReason /= "Known"
isEmpty(sc) == ~unknown(sc) /\ ~HasValue(sc.m) /\ ~HasValue(sc.x)

\* StateChange::set / StateChange::reset.
StateChangeSet(sc, mask) ==
  [sc EXCEPT !.m = IF StateM(mask % 256) THEN Some(TRUE) ELSE @,
             !.x = IF StateX(mask % 256) THEN Some(TRUE) ELSE @]
StateChangeReset(sc, mask) ==
  [sc EXCEPT !.m = IF StateM(mask % 256) THEN Some(FALSE) ELSE @,
             !.x = IF StateX(mask % 256) THEN Some(FALSE) ELSE @]

\* A faulty applyInference, for comparison: it elides nothing.
applyInference_Keep(sc, inference) == sc

\* StateChange::applyInference.
applyInference(sc, inference) ==
  [sc EXCEPT !.m = IF HasValue(@) /\ @ = inference.m THEN Nullopt ELSE @,
             !.x = IF HasValue(@) /\ @ = inference.x THEN Nullopt ELSE @]

\* StateChange::simplify.
simplify(sc, p) ==
  [sc EXCEPT !.m = IF @ = Some(StateM(p)) THEN Nullopt ELSE @,
             !.x = IF @ = Some(StateX(p)) THEN Nullopt ELSE @]

\* StateChange::operator== (the key of a StateChangeSet): m and x only.
StateChangeKey(sc) == <<sc.m, sc.x>>

(***************************************************************************)
(* Opcode tables and Instruction                                           *)
(***************************************************************************)
\* OPCODE_TABLE, first components: the operation of each opcode 0..255.
OPERATIONS ==
  <<"BRK", "ORA", "COP", "ORA", "TSB", "ORA", "ASL", "ORA",
    "PHP", "ORA", "ASL", "PHD", "TSB", "ORA", "ASL", "ORA",
    "BPL", "ORA", "ORA", "ORA", "TRB", "ORA", "ASL", "ORA",
    "CLC", "ORA", "INC", "TCS", "TRB", "ORA", "ASL", "ORA",
    "JSR", "AND", "JSL", "AND", "BIT", "AND", "ROL", "AND",
    "PLP", "AND", "ROL", "PLD", "BIT", "AND", "ROL", "AND",
    "BMI", "AND", "AND", "AND", "BIT", "AND", "ROL", "AND",
    "SEC", "AND", "DEC", "TSC", "BIT", "AND", "ROL", "AND",
    "RTI", "EOR", "WDM", "EOR", "MVP", "EOR", "LSR", "EOR",
    "PHA", "EOR", "LSR", "PHK", "JMP", "EOR", "LSR", "EOR",
    "BVC", "EOR", "EOR", "EOR", "MVN", "EOR", "LSR", "EOR",
    "CLI", "EOR", "PHY", "TCD", "JML", "EOR", "LSR", "EOR",
    "RTS", "ADC", "PER", "ADC", "STZ", "ADC", "ROR", "ADC",
    "PLA", "ADC", "ROR", "RTL", "JMP", "ADC", "ROR", "ADC",
    "BVS", "ADC", "ADC", "ADC", "STZ", "ADC", "ROR", "ADC",
    "SEI", "ADC", "PLY", "TDC", "JMP", "ADC", "ROR", "ADC",
    "BRA", "STA", "BRL", "STA", "STY", "STA", "STX", "STA",
    "DEY", "BIT", "TXA", "PHB", "STY", "STA", "STX", "STA",
    "BCC", "STA", "STA", "STA", "STY", "STA", "STX", "STA",
    "TYA", "STA", "TXS", "TXY", "STZ", "STA", "STZ", "STA",
    "LDY", "LDA", "LDX", "LDA", "LDY", "LDA", "LDX", "LDA",
    "TAY", "LDA", "TAX", "PLB", "LDY", "LDA", "LDX", "LDA",
    "BCS", "LDA", "LDA", "LDA", "LDY", "LDA", "LDX", "LDA",
    "CLV", "LDA", "TSX", "TYX", "LDY", "LDA", "LDX", "LDA",
    "CPY", "CMP", "REP", "CMP", "CPY", "CMP", "DEC", "CMP",
    "INY", "CMP", "DEX", "WAI", "CPY", "CMP", "DEC", "CMP",
    "BNE", "CMP", "CMP", "CMP", "PEI", "CMP", "DEC", "CMP",
    "CLD", "CMP", "PHX", "STP", "JML", "CMP", "DEC", "CMP",
    "CPX", "SBC", "SEP", "SBC", "CPX", "SBC", "INC", "SBC",
    "INX", "SBC", "NOP", "XBA", "CPX", "SBC", "INC", "SBC",
    "BEQ", "SBC", "SBC", "SBC", "PEA", "SBC", "INC", "SBC",
    "SED", "SBC", "PLX", "XCE", "JSR", "SBC", "INC", "SBC">>

\* OPCODE_TABLE, second components: the addressing mode of each opcode
\* 0..255, abbreviated (one row per high nibble).
ADDRESS_MODES ==
  <<"i8", "dxi", "i8", "sr", "d", "d", "d", "dil",
    "imp", "im", "acc", "imp", "a", "a", "a", "al",
    "r", "diy", "di", "sriy", "d", "dx", "dx", "dily",
    "imp", "ay", "acc", "imp", "a", "ax", "ax", "alx",
    "a", "dxi", "al", "sr", "d", "d", "d", "dil",
    "imp", "im", "acc", "imp", "a", "a", "a", "al",
    "r", "diy", "di", "sriy", "dx", "dx", "dx", "dily",
    "imp", "ay", "acc", "imp", "ax", "ax", "ax", "alx",
    "imp", "dxi", "i8", "sr", "mv", "d", "d", "dil",
    "imp", "im", "acc", "imp", "a", "a", "a", "al",
    "r", "diy", "di", "sriy", "mv", "dx", "dx", "dily",
    "imp", "ay", "imp", "imp", "al", "ax", "ax", "alx",
    "imp", "dxi", "rl", "sr", "d", "d", "d", "dil",
    "imp", "im", "acc", "imp", "ai", "a", "a", "al",
    "r", "diy", "di", "sriy", "dx", "dx", "dx", "dily",
    "imp", "ay", "imp", "imp", "axi", "ax", "ax", "alx",
    "r", "dxi", "rl", "sr", "d", "d", "d", "dil",
    "imp", "im", "imp", "imp", "a", "a", "a", "al",
    "r", "diy", "di", "sriy", "dx", "dx", "dy", "dily",
    "imp", "ay", "imp", "imp", "a", "ax", "ax", "alx",
    "ix", "dxi", "ix", "sr", "d", "d", "d", "dil",
    "imp", "im", "imp", "imp", "a", "a", "a", "al",
    "r", "diy", "di", "sriy", "dx", "dx", "dy", "dily",
    "imp", "ay", "imp", "imp", "ax", "ax", "ay", "alx",
    "ix", "dxi", "i8", "sr", "d", "d", "d", "dil",
    "imp", "im", "imp", "imp", "a", "a", "a", "al",
    "r", "diy", "di", "sriy", "pei", "dx", "dx", "dily",
    "imp", "ay", "imp", "imp", "ail", "ax", "ax", "alx",
    "ix", "dxi", "i8", "sr", "d", "d", "d", "dil",
    "imp", "im", "imp", "imp", "a", "a", "a", "al",
    "r", "diy", "di", "sriy", "a", "dx", "dx", "dily",
    "imp", "ay", "imp", "imp", "axi", "ax", "ax", "alx">>

\* The AddressMode an abbreviation of ADDRESS_MODES stands for.
AddressMode(code) ==
  CASE code = "imp" -> "Implied"
    [] code = "acc" -> "ImpliedAccumulator"
    [] code = "im" -> "ImmediateM"
    [] code = "ix" -> "ImmediateX"
    [] code = "i8" -> "Immediate8"
    [] code = "r" -> "Relative"
    [] code = "rl" -> "RelativeLong"
    [] code = "d" -> "DirectPage"
    [] code = "dx" -> "DirectPageIndexedX"
    [] code = "dy" -> "DirectPageIndexedY"
    [] code = "di" -> "DirectPageIndirect"
    [] code = "dxi" -> "DirectPageIndexedIndirect"
    [] code = "diy" -> "DirectPageIndirectIndexed"
    [] code = "dil" -> "DirectPageIndirectLong"
    [] code = "dily" -> "DirectPageIndirectIndexedLong"
    [] code = "a" -> "Absolute"
    [] code = "ax" -> "AbsoluteIndexedX"
    [] code = "ay" -> "AbsoluteIndexedY"
    [] code = "al" -> "AbsoluteLong"
    [] code = "alx" -> "AbsoluteIndexedLong"
    [] code = "sr" -> "StackRelative"
    [] code = "sriy" -> "StackRelativeIndirectIndexed"
    [] code = "ai" -> "AbsoluteIndirect"
    [] code = "ail" -> "AbsoluteIndirectLong"
    [] code = "axi" -> "AbsoluteIndexedIndirect"
    [] code = "mv" -> "Move"
    [] code = "pei" -> "PeiDirectPageIndirect"

\* OPCODE_TABLE: opcode -> <<operation, addressing mode>>.
OPCODE_TABLE(opcode) ==
  <<OPERATIONS[opcode + 1], AddressMode(ADDRESS_MODES[opcode + 1])>>

\* ARGUMENT_SIZES: addressing mode -> optional size.
ARGUMENT_SIZES(mode) ==
  CASE mode = "Implied" -> Some(0)
    [] mode = "ImpliedAccumulator" -> Some(0)
    [] mode = "Immediate8" -> Some(1)
    [] mode = "Relative" -> Some(1)
    [] mode = "RelativeLong" -> Some(2)
    [] mode = "DirectPage" -> Some(1)
    [] mode = "DirectPageIndexedX" -> Some(1)
    [] mode = "DirectPageIndexedY" -> Some(1)
    [] mode = "DirectPageIndirect" -> Some(1)
    [] mode = "DirectPageIndexedIndirect" -> Some(1)
    [] mode = "DirectPageIndirectIndexed" -> Some(1)
    [] mode = "DirectPageIndirectLong" -> Some(1)
    [] mode = "DirectPageIndirectIndexedLong" -> Some(1)
    [] mode = "Absolute" -> Some(2)
    [] mode = "AbsoluteIndexedX" -> Some(2)
    [] mode = "AbsoluteIndexedY" -> Some(2)
    [] mode = "AbsoluteLong" -> Some(3)
    [] mode = "AbsoluteIndexedLong" -> Some(3)
    [] mode = "StackRelative" -> Some(1)
    [] mode = "StackRelativeIndirectIndexed" -> Some(1)
    [] mode = "AbsoluteIndirect" -> Some(2)
    [] mode = "AbsoluteIndirectLong" -> Some(2)
    [] mode = "AbsoluteIndexedIndirect" -> Some(2)
    [] mode = "Move" -> Some(2)
    [] mode = "PeiDirectPageIndirect" -> Some(1)
    [] OTHER -> Nullopt

\* An instruction value: identity (pc, subroutinePC, state) plus its bytes.
Instruction(pc, subroutinePC, opcode, argument, state) ==
  [pc |-> pc, subroutinePC |-> subroutinePC, opcode |-> opcode,
   argument |-> argument, state |-> state]

\* Instruction::operator== / hash_value: the identity of an instruction.
Identity(i) == <<i.pc, i.subroutinePC, i.state>>

operation(i) == OPCODE_TABLE(i.opcode)[1]
addressMode(i) == OPCODE_TABLE(i.opcode)[2]

\* Instruction::type.
type(i) ==
  LET op == operation(i)
  IN CASE op \in {"JSR", "JSL"} -> "Call"
       [] op \in {"JMP", "JML", "BRA", "BRL"} -> "Jump"
       [] op \in {"RTS", "RTL", "RTI"} -> "Return"
       [] op = "BRK" -> "Interrupt"
       [] op \in {"SEP", "REP"} -> "SepRep"
       [] op \in {"PLA", "PLB", "PLD", "PLP", "PLX", "PLY"} -> "Pop"
       [] op \in {"PEA", "PEI", "PER", "PHA", "PHB", "PHD", "PHK", "PHP",
                  "PHX", "PHY"} -> "Push"
       [] op \in {"BCC", "BCS", "BEQ", "BMI", "BNE", "BPL", "BVC", "BVS"} ->
            "Branch"
       [] OTHER -> "Other"

\* Instruction::isControl.
isControl(i) == type(i) \in {"Branch", "Call", "Jump", "Return", "Interrupt"}

\* Instruction::argumentSize.
argumentSize(i) ==
  LET size == ARGUMENT_SIZES(addressMode(i))
  IN IF HasValue(size) THEN Value(size)
     ELSE IF addressMode(i) = "ImmediateM" THEN sizeA(i.state)
     ELSE sizeX(i.state)

\* Instruction::size.
size(i) == argumentSize(i) + 1

\* Instruction::argument.
argument(i) ==
  CASE argumentSize(i) = 0 -> Nullopt
    [] argumentSize(i) = 1 -> Some(i.argument % 256)
    [] argumentSize(i) = 2 -> Some(i.argument % 65536)
    [] argumentSize(i) = 3 -> Some(i.argument % 16777216)

\* The casts (i8) and (i16).
SignExtend8(v) == IF v >= 128 THEN v - 256 ELSE v
SignExtend16(v) == IF v >= 32768 THEN v - 65536 ELSE v
\* u24 is a 32-bit unsigned: a negative sum wraps by 2^32 (written as a sum,
\* 2^32 itself being beyond the integers of the model checker).
WrapU24(v) == IF v >= 0 THEN v ELSE (v + 2147483647) + 2147483647 + 2

\* Instruction::absoluteArgument.
absoluteArgument(i) ==
  LET arg == argument(i)
      mode == addressMode(i)
  IN IF ~HasValue(arg) THEN Nullopt
     ELSE CASE mode \in {"ImmediateM", "ImmediateX", "Immediate8",
                         "AbsoluteLong"} -> arg
            [] mode = "Absolute" ->
                 IF isControl(i)
                 THEN Some((i.pc \div 65536) * 65536 + Value(arg))
                 ELSE Nullopt
            [] mode = "Relative" ->
                 Some(WrapU24(i.pc + size(i) + SignExtend8(Value(arg))))
            [] mode = "RelativeLong" ->
                 Some(WrapU24(i.pc + size(i) + SignExtend16(Value(arg))))
            [] OTHER -> Nullopt

(***************************************************************************)
(* Stack                                                                   *)
(***************************************************************************)
\* A StackEntry: the producing instruction (Nullopt for nullptr) and the
\* data: Nullopt, <<"u8", byte>> or <<"state", State, StateChange>>.
StackEntry(instruction, data) == [instruction |-> instruction, data |-> data]
EmptyStackEntry == StackEntry(Nullopt, Nullopt)

\* A fresh Stack: pointer = 0x100, empty memory.
InitialPointer == 256
EmptyStack == [pointer |-> InitialPointer, memory |-> EmptyMap]

WrapU16(v) == v % 65536

\* memory[pointer--] = entry.
StackStore(stack, entry) ==
  [pointer |-> WrapU16(stack.pointer + 65535),
   memory |-> Put(stack.memory, stack.pointer, entry)]

\* A faulty pushValue, for comparison: bytes low to high.
RECURSIVE pushValue_LowFirst(_, _, _, _)
pushValue_LowFirst(stack, n, data, instruction) ==
  IF n = 0 THEN stack
  ELSE LET byte == IF HasValue(data)
                   THEN <<"u8", Value(data) % 256>>
                   ELSE Nullopt
       IN pushValue_LowFirst(
            StackStore(stack, StackEntry(instruction, byte)), n - 1,
            IF HasValue(data) THEN Some(Value(data) \div 256) ELSE data,
            instruction)

\* Stack::pushValue(size, data, instruction): bytes high to low.
RECURSIVE pushValue(_, _, _, _)
pushValue(stack, n, data, instruction) ==
  IF n = 0 THEN stack
  ELSE LET byte == IF HasValue(data)
                   THEN <<"u8", (Value(data) \div (256 ^ (n - 1))) % 256>>
                   ELSE Nullopt
       IN pushValue(StackStore(stack, StackEntry(instruction, byte)),
                    n - 1, data, instruction)

\* Stack::pushOne.
pushOne(stack, data, instruction) == pushValue(stack, 1, data, instruction)

\* Stack::pushState.
pushState(stack, state, stateChange, instruction) ==
  StackStore(stack, StackEntry(instruction, <<"state", state, stateChange>>))

\* Stack::popOne: <<the entry, the stack afterwards>>.
popOne(stack) ==
  LET pointer == WrapU16(stack.pointer + 1)
  IN <<IF pointer \in DOMAIN stack.memory THEN stack.memory[pointer]
       ELSE EmptyStackEntry,
       [stack EXCEPT !.pointer = pointer]>>

\* Stack::pop(size): <<the entries in pop order, the stack afterwards>>.
RECURSIVE pop(_, _)
pop(stack, n) ==
  IF n = 0 THEN <<<<>>, stack>>
  ELSE LET one == popOne(stack)
           rest == pop(one[2], n - 1)
       IN <<<<one[1]>> \o rest[1], rest[2]>>

(***************************************************************************)
(* Subroutine                                                              *)
(***************************************************************************)
HexDigits ==
  <<"0", "1", "2", "3", "4", "5", "6", "7", "8", "9", "A", "B", "C", "D",
    "E", "F">>
HexDigit(v, k) == HexDigits[((v \div (16 ^ k)) % 16) + 1]

\* format("%06X", pc).
Hex6(v) ==
  HexDigit(v, 5) \o HexDigit(v, 4) \o HexDigit(v, 3) \o HexDigit(v, 2)
    \o HexDigit(v, 1) \o HexDigit(v, 0)

\* Subroutine::Subroutine.
Subroutine(pc, label, isEntryPoint) ==
  [pc |-> pc, label |-> label, isEntryPoint |-> isEntryPoint,
   instructions |-> EmptyMap, knownStateChanges |-> EmptyMap,
   unknownStateChanges |-> EmptyMap]

\* Subroutine::addInstruction: instructions[instruction->pc] = instruction.
SubroutineAddInstruction(sub, id) ==
  [sub EXCEPT !.instructions = Put(@, id[1], id)]

\* Subroutine::addStateChange.
addStateChange(sub, pc, stateChange) ==
  IF unknown(stateChange)
  THEN [sub EXCEPT !.unknownStateChanges = Put(@, pc, stateChange)]
  ELSE [sub EXCEPT !.knownStateChanges = Put(@, pc, stateChange)]

\* Subroutine::simplifiedStateChanges: a StateChangeSet.
simplifiedStateChanges(sub, state) ==
  {simplify(sub.knownStateChanges[pc], state) :
     pc \in DOMAIN sub.knownStateChanges}

\* Subroutine::isUnknownBecauseOf.
isUnknownBecauseOf(sub, reason) ==
  \E pc \in DOMAIN sub.unknownStateChanges :
    sub.unknownStateChanges[pc].unknownReason = reason

(***************************************************************************)
(* Analysis: the operations the walker calls.  A world w is the part of    *)
(* the Analysis a walker writes, plus the walker itself (w.cpu), the       *)
(* walker it spawns next (w.child) and the last addInstruction result.     *)
(***************************************************************************)
\* Analysis::addSubroutine: try_emplace with the default label sub_XXXXXX.
addSubroutine(subs, pc, label, isEntryPoint) ==
  TryEmplace(subs, pc,
             Subroutine(pc,
                        IF HasValue(label) THEN Value(label)
                        ELSE "sub_" \o Hex6(pc),
                        isEntryPoint))

\* A faulty addInstruction, for comparison: it inserts and returns the
\* instruction even when its identity is already in the index.
addInstruction_Reinsert(w, i) ==
  [w EXCEPT
     !.instructions =
        Put(@, Identity(i),
            [opcode |-> i.opcode, argument |-> i.argument, label |-> Nullopt]),
     !.subroutines[i.subroutinePC] = SubroutineAddInstruction(@, Identity(i)),
     !.result = Some(Identity(i))]

\* Analysis::addInstruction: w.result is the returned pointer.
addInstruction(w, i) ==
  IF Identity(i) \in DOMAIN w.instructions
  THEN [w EXCEPT !.result = Nullopt]
  ELSE [w EXCEPT
          !.instructions =
             Put(@, Identity(i),
                 [opcode |-> i.opcode, argument |-> i.argument,
                  label |-> Nullopt]),
          !.subroutines[i.subroutinePC] =
             SubroutineAddInstruction(@, Identity(i)),
          !.result = Some(Identity(i))]

\* A faulty addReference, for comparison: it files the edge under its
\* target instead of its source.
addReference_UnderTarget(refs, source, target, subroutinePC) ==
  refs \cup {<<target, target, subroutinePC>>}

\* Analysis::addReference.
addReference(refs, source, target, subroutinePC) ==
  refs \cup {<<source, target, subroutinePC>>}

\* Analysis::getAssertion (AssertionType::None when there is none).
NoAssertion == [type |-> "None", stateChange |-> EmptyStateChange]
getAssertion(pc, subroutinePC) ==
  IF <<pc, subroutinePC>> \in DOMAIN assertions
  THEN assertions[<<pc, subroutinePC>>]
  ELSE NoAssertion

\* The Instruction object an identity in the index stands for.
InstructionAt(index, id) ==
  Instruction(id[1], id[2], index[id].opcode, index[id].argument, id[3])

(***************************************************************************)
(* CPU walker                                                              *)
(***************************************************************************)
NoWait == [kind |-> "none", instruction |-> Nullopt, remaining |-> {},
           targets |-> {}]

\* CPU::CPU(analysis, pc, subroutinePC, state).
CPU(pc, subroutinePC, state) ==
  [pc |-> pc, subroutinePC |-> subroutinePC, state |-> state,
   stateChange |-> EmptyStateChange, stateInference |-> EmptyStateChange,
   stack |-> EmptyStack, stop |-> FALSE, wait |-> NoWait]

\* A faulty applyStateChange, for comparison: it updates the state but does
\* not record the delta in stateChange.
applyStateChange_StateOnly(cpu, sc) ==
  LET c1 == IF HasValue(sc.m) THEN [cpu EXCEPT !.state = WithM(@, Value(sc.m))]
            ELSE cpu
  IN IF HasValue(sc.x) THEN [c1 EXCEPT !.state = WithX(@, Value(sc.x))]
     ELSE c1

\* CPU::applyStateChange.
applyStateChange(cpu, sc) ==
  LET c1 == IF HasValue(sc.m)
            THEN [cpu EXCEPT !.state = WithM(@, Value(sc.m)),
                             !.stateChange.m = sc.m]
            ELSE cpu
  IN IF HasValue(sc.x)
     THEN [c1 EXCEPT !.state = WithX(@, Value(sc.x)),
                     !.stateChange.x = sc.x]
     ELSE c1

\* subroutine()->addStateChange(pc, stateChange), with its history entry.
RecordStateChange(w, pc, sc) ==
  [w EXCEPT
     !.subroutines[w.cpu.subroutinePC] = addStateChange(@, pc, sc),
     !.recorded = @ \cup {<<w.cpu.subroutinePC, pc, sc>>}]

\* A faulty unknownStateChange, for comparison: under a Subroutine-typed
\* assertion it records the unknown reason, not the asserted delta.
unknownStateChange_ReasonKept(w, pc, reason) ==
  LET assertion == getAssertion(pc, w.cpu.subroutinePC)
  IN CASE assertion.type = "None" ->
            [RecordStateChange(w, pc, StateChangeUnknown(reason))
               EXCEPT !.cpu.stop = TRUE]
       [] assertion.type = "Instruction" ->
            [w EXCEPT !.cpu = applyStateChange(@, assertion.stateChange)]
       [] assertion.type = "Subroutine" ->
            [RecordStateChange(w, pc, StateChangeUnknown(reason))
               EXCEPT !.cpu.stop = TRUE]

\* CPU::unknownStateChange.
unknownStateChange(w, pc, reason) ==
  LET assertion == getAssertion(pc, w.cpu.subroutinePC)
  IN CASE assertion.type = "None" ->
            [RecordStateChange(w, pc, StateChangeUnknown(reason))
               EXCEPT !.cpu.stop = TRUE]
       [] assertion.type = "Instruction" ->
            [w EXCEPT !.cpu = applyStateChange(@, assertion.stateChange)]
       [] assertion.type = "Subroutine" ->
            [RecordStateChange(w, pc, assertion.stateChange)
               EXCEPT !.cpu.stop = TRUE]

\* CPU::standardRet.
standardRet(w, i) ==
  [RecordStateChange(w, i.pc, w.cpu.stateChange) EXCEPT !.cpu.stop = TRUE]

\* A faulty checkReturnManipulation, for comparison: it only looks for
\* entries without a producer.
checkReturnManipulation_NullOnly(index, i, entries) ==
  \E k \in 1..Len(entries) : ~HasValue(entries[k].instruction)

\* CPU::checkReturnManipulation.
checkReturnManipulation(index, i, entries) ==
  \E k \in 1..Len(entries) :
    LET caller == entries[k].instruction
    IN \/ ~HasValue(caller)
       \/ /\ HasValue(caller)
          /\ LET op == operation(InstructionAt(index, Value(caller)))
             IN \/ operation(i) = "RTS" /\ op /= "JSR"
                \/ operation(i) = "RTL" /\ op /= "JSL"

\* A faulty CPU::ret, for comparison: the popped entries are not examined.
ret_Unchecked(w, i) ==
  IF operation(i) = "RTI" THEN standardRet(w, i)
  ELSE LET retSize == IF operation(i) = "RTS" THEN 2 ELSE 3
           popped == pop(w.cpu.stack, retSize)
           w1 == [w EXCEPT !.cpu.stack = popped[2]]
       IN standardRet(w1, i)

\* CPU::ret.
ret(w, i) ==
  IF operation(i) = "RTI" THEN standardRet(w, i)
  ELSE LET retSize == IF operation(i) = "RTS" THEN 2 ELSE 3
           popped == pop(w.cpu.stack, retSize)
           w1 == [w EXCEPT !.cpu.stack = popped[2]]
       IN IF ~checkReturnManipulation(w.instructions, i, popped[1])
          THEN standardRet(w1, i)
          ELSE unknownStateChange(w1, i.pc, "StackManipulation")

\* A faulty CPU::sepRep, for comparison: the stateChange is updated but the
\* state of the walker is not.
sepRep_StateChangeOnly(w, i) ==
  LET arg == Value(absoluteArgument(i))
      c1 == IF operation(i) = "SEP"
            THEN [w.cpu EXCEPT !.stateChange = StateChangeSet(@, arg)]
            ELSE [w.cpu EXCEPT !.stateChange = StateChangeReset(@, arg)]
  IN [w EXCEPT
        !.cpu = [c1 EXCEPT
                   !.stateChange = applyInference(@, c1.stateInference)]]

\* CPU::sepRep.
sepRep(w, i) ==
  LET arg == Value(absoluteArgument(i))
      c1 == IF operation(i) = "SEP"
            THEN [w.cpu EXCEPT !.state = StateSet(@, arg),
                               !.stateChange = StateChangeSet(@, arg)]
            ELSE [w.cpu EXCEPT !.state = StateReset(@, arg),
                               !.stateChange = StateChangeReset(@, arg)]
  IN [w EXCEPT
        !.cpu = [c1 EXCEPT
                   !.stateChange = applyInference(@, c1.stateInference)]]

\* A faulty CPU::pop, for comparison: PLP restores the state the PHP saved
\* but keeps the current stateChange.
cpuPop_KeepStateChange(w, i) ==
  LET op == operation(i)
  IN CASE op = "PLP" ->
            LET one == popOne(w.cpu.stack)
                entry == one[1]
                w1 == [w EXCEPT !.cpu.stack = one[2]]
            IN IF /\ HasValue(entry.instruction)
                  /\ operation(InstructionAt(w.instructions,
                                             Value(entry.instruction))) = "PHP"
               THEN [w1 EXCEPT !.cpu.state = entry.data[2]]
               ELSE unknownStateChange(w1, i.pc, "StackManipulation")
       [] op = "PLA" ->
            [w EXCEPT !.cpu.stack = pop(@, sizeA(w.cpu.state))[2]]
       [] op \in {"PLX", "PLY"} ->
            [w EXCEPT !.cpu.stack = pop(@, sizeX(w.cpu.state))[2]]
       [] op = "PLB" -> [w EXCEPT !.cpu.stack = popOne(@)[2]]
       [] op = "PLD" -> [w EXCEPT !.cpu.stack = pop(@, 2)[2]]

\* CPU::pop.
cpuPop(w, i) ==
  LET op == operation(i)
  IN CASE op = "PLP" ->
            LET one == popOne(w.cpu.stack)
                entry == one[1]
                w1 == [w EXCEPT !.cpu.stack = one[2]]
            IN IF /\ HasValue(entry.instruction)
                  /\ operation(InstructionAt(w.instructions,
                                             Value(entry.instruction))) = "PHP"
               THEN [w1 EXCEPT !.cpu.state = entry.data[2],
                               !.cpu.stateChange = entry.data[3]]
               ELSE unknownStateChange(w1, i.pc, "StackManipulation")
       [] op = "PLA" ->
            [w EXCEPT !.cpu.stack = pop(@, sizeA(w.cpu.state))[2]]
       [] op \in {"PLX", "PLY"} ->
            [w EXCEPT !.cpu.stack = pop(@, sizeX(w.cpu.state))[2]]
       [] op = "PLB" -> [w EXCEPT !.cpu.stack = popOne(@)[2]]
       [] op = "PLD" -> [w EXCEPT !.cpu.stack = pop(@, 2)[2]]

\* CPU::push.
cpuPush(w, i) ==
  LET op == operation(i)
      id == Some(Identity(i))
  IN CASE op = "PHP" ->
            [w EXCEPT !.cpu.stack =
               pushState(@, w.cpu.state, w.cpu.stateChange, id)]
       [] op = "PHA" ->
            [w EXCEPT !.cpu.stack =
               pushValue(@, sizeA(w.cpu.state), Nullopt, id)]
       [] op \in {"PHX", "PHY"} ->
            [w EXCEPT !.cpu.stack =
               pushValue(@, sizeX(w.cpu.state), Nullopt, id)]
       [] op \in {"PHB", "PHK"} ->
            [w EXCEPT !.cpu.stack = pushOne(@, Nullopt, id)]
       [] op \in {"PHD", "PEA", "PER", "PEI"} ->
            [w EXCEPT !.cpu.stack = pushValue(@, 2, Nullopt, id)]

\* CPU::deriveStateInference.
deriveStateInference(cpu, i) ==
  [cpu EXCEPT
     !.stateInference.m =
        IF addressMode(i) = "ImmediateM" /\ ~HasValue(cpu.stateChange.m)
        THEN Some(StateM(cpu.state)) ELSE @,
     !.stateInference.x =
        IF addressMode(i) = "ImmediateX" /\ ~HasValue(cpu.stateChange.x)
        THEN Some(StateX(cpu.state)) ELSE @]

\* CPU::computeJumpTargets: <<optional set of targets, jumpTables afterwards>>.
UnknownJumpTable == [status |-> "Unknown", targets |-> EmptyMap]

\* A faulty computeJumpTargets, for comparison: it does not track the jump
\* tables it sees for the first time.
computeJumpTargets_Untracked(tables, i) ==
  IF HasValue(absoluteArgument(i))
  THEN <<Some({Value(absoluteArgument(i))}), tables>>
  ELSE IF i.pc \notin DOMAIN tables \/ tables[i.pc].status = "Unknown"
       THEN <<Nullopt, tables>>
       ELSE <<Some({tables[i.pc].targets[k] :
                      k \in DOMAIN tables[i.pc].targets}), tables>>

\* CPU::computeJumpTargets.
computeJumpTargets(tables, i) ==
  IF HasValue(absoluteArgument(i))
  THEN <<Some({Value(absoluteArgument(i))}), tables>>
  ELSE IF i.pc \notin DOMAIN tables \/ tables[i.pc].status = "Unknown"
       THEN <<Nullopt, TryEmplace(tables, i.pc, UnknownJumpTable)>>
       ELSE <<Some({tables[i.pc].targets[k] :
                      k \in DOMAIN tables[i.pc].targets}), tables>>

\* A faulty propagateSubroutineState, for comparison: it does not look at
\* the targets' unknown state changes.
propagateSubroutineState_IgnoreUnknown(w, pc, targets) ==
  LET stateChanges ==
        UNION {simplifiedStateChanges(w.subroutines[t], w.cpu.state) :
                 t \in targets}
  IN IF Cardinality(stateChanges) /= 1
     THEN unknownStateChange(w, pc, "MultipleReturnStates")
     ELSE [w EXCEPT
             !.cpu = applyStateChange(@, CHOOSE sc \in stateChanges : TRUE)]

\* CPU::propagateSubroutineState.
propagateSubroutineState(w, pc, targets) ==
  LET stateChanges ==
        UNION {simplifiedStateChanges(w.subroutines[t], w.cpu.state) :
                 t \in targets}
  IN IF \E t \in targets : DOMAIN w.subroutines[t].unknownStateChanges /= {}
     THEN unknownStateChange(w, pc, "Unknown")
     ELSE IF Cardinality(stateChanges) /= 1
          THEN unknownStateChange(w, pc, "MultipleReturnStates")
          ELSE [w EXCEPT
                  !.cpu = applyStateChange(@, CHOOSE sc \in stateChanges : TRUE)]

\* CPU::branch, up to the run of the fall-through copy.
branch(w, i) ==
  [w EXCEPT !.cpu.wait = [kind |-> "branch", instruction |-> i,
                          remaining |-> {w.cpu.pc}, targets |-> {w.cpu.pc}]]

\* A faulty CPU::call, for comparison: the return address is pushed on the
\* stack of the calling walker too.
call_PushOnCaller(w, i) ==
  LET found == computeJumpTargets(w.jumpTables, i)
      w1 == [w EXCEPT !.jumpTables = found[2]]
  IN IF ~HasValue(found[1])
     THEN unknownStateChange(w1, i.pc, "IndirectJump")
     ELSE [w1 EXCEPT !.cpu.wait = [kind |-> "call", instruction |-> i,
                                   remaining |-> Value(found[1]),
                                   targets |-> Value(found[1])],
                     !.cpu.stack =
                        pushValue(@, IF operation(i) = "JSR" THEN 2 ELSE 3,
                                  Some(i.pc), Some(Identity(i)))]

\* CPU::call, up to the loop over the targets.
call(w, i) ==
  LET found == computeJumpTargets(w.jumpTables, i)
      w1 == [w EXCEPT !.jumpTables = found[2]]
  IN IF ~HasValue(found[1])
     THEN unknownStateChange(w1, i.pc, "IndirectJump")
     ELSE [w1 EXCEPT !.cpu.wait = [kind |-> "call", instruction |-> i,
                                   remaining |-> Value(found[1]),
                                   targets |-> Value(found[1])]]

\* CPU::interrupt.
interrupt(w, i) == unknownStateChange(w, i.pc, "SuspectInstruction")

\* A faulty CPU::jump, for comparison: the targets are entered as a call
\* enters them.
jump_AsCall(w, i) ==
  LET found == computeJumpTargets(w.jumpTables, i)
      w1 == [w EXCEPT !.jumpTables = found[2]]
  IN IF ~HasValue(found[1])
     THEN unknownStateChange(w1, i.pc, "IndirectJump")
     ELSE [w1 EXCEPT !.cpu.wait = [kind |-> "call", instruction |-> i,
                                   remaining |-> Value(found[1]),
                                   targets |-> Value(found[1])]]

\* CPU::jump, up to the loop over the targets.
jump(w, i) ==
  LET found == computeJumpTargets(w.jumpTables, i)
      w1 == [w EXCEPT !.jumpTables = found[2]]
  IN IF ~HasValue(found[1])
     THEN unknownStateChange(w1, i.pc, "IndirectJump")
     ELSE [w1 EXCEPT !.cpu.wait = [kind |-> "jump", instruction |-> i,
                                   remaining |-> Value(found[1]),
                                   targets |-> Value(found[1])]]

\* CPU::execute.
execute(w, i) ==
  LET c1 == [w.cpu EXCEPT !.pc = WrapU24(@ + size(i))]
      w1 == [w EXCEPT !.cpu = deriveStateInference(c1, i),
                      !.executed = Append(@, Identity(i))]
  IN CASE type(i) = "Branch" -> branch(w1, i)
       [] type(i) = "Call" -> call(w1, i)
       [] type(i) = "Interrupt" -> interrupt(w1, i)
       [] type(i) = "Jump" -> jump(w1, i)
       [] type(i) = "Return" -> ret(w1, i)
       [] type(i) = "SepRep" -> sepRep(w1, i)
       [] type(i) = "Pop" -> cpuPop(w1, i)
       [] type(i) = "Push" -> cpuPush(w1, i)
       [] OTHER -> w1

\* CPU::step.
step(w) ==
  IF isRAM(w.cpu.pc)
  THEN unknownStateChange(w, w.cpu.pc, "MutableCode")
  ELSE LET opcode == readByte(rom, w.cpu.pc)
           arg == readAddress(rom, w.cpu.pc + 1)
           i == Instruction(w.cpu.pc, w.cpu.subroutinePC, opcode, arg,
                            w.cpu.state)
           w1 == addInstruction(w, i)
       IN IF ~HasValue(w1.result)
          THEN [w1 EXCEPT !.cpu.stop = TRUE]
          ELSE execute(w1, i)

\* A faulty copy for a call, for comparison: no return address is pushed on
\* the copy's stack.
Spawn_NoReturnAddress(w, target) ==
  LET i == w.cpu.wait.instruction
      kind == w.cpu.wait.kind
      copy == [w.cpu EXCEPT !.wait = NoWait]
      parent == [w.cpu EXCEPT !.wait.remaining = @ \ {target}]
  IN CASE kind = "branch" ->
            [w EXCEPT !.cpu = parent, !.child = Some(copy)]
       [] kind = "call" ->
            [w EXCEPT
               !.cpu = parent,
               !.child =
                  Some([copy EXCEPT
                          !.pc = target,
                          !.subroutinePC = target,
                          !.stateChange = EmptyStateChange]),
               !.subroutines = addSubroutine(@, target, Nullopt, FALSE),
               !.references =
                  addReference(@, i.pc, target, w.cpu.subroutinePC)]
       [] kind = "jump" ->
            [w EXCEPT
               !.cpu = parent,
               !.child = Some([copy EXCEPT !.pc = target]),
               !.references =
                  addReference(@, i.pc, target, w.cpu.subroutinePC)]

\* One iteration of the loops of CPU::branch / call / jump: the copy of the
\* walker that explores `target`, as w.child.
Spawn(w, target) ==
  LET i == w.cpu.wait.instruction
      kind == w.cpu.wait.kind
      copy == [w.cpu EXCEPT !.wait = NoWait]
      parent == [w.cpu EXCEPT !.wait.remaining = @ \ {target}]
  IN CASE kind = "branch" ->
            [w EXCEPT !.cpu = parent, !.child = Some(copy)]
       [] kind = "call" ->
            [w EXCEPT
               !.cpu = parent,
               !.child =
                  Some([copy EXCEPT
                          !.pc = target,
                          !.subroutinePC = target,
                          !.stateChange = EmptyStateChange,
                          !.stack =
                             pushValue(@,
                                       IF operation(i) = "JSR" THEN 2 ELSE 3,
                                       Some(i.pc), Some(Identity(i)))]),
               !.subroutines = addSubroutine(@, target, Nullopt, FALSE),
               !.references =
                  addReference(@, i.pc, target, w.cpu.subroutinePC)]
       [] kind = "jump" ->
            [w EXCEPT
               !.cpu = parent,
               !.child = Some([copy EXCEPT !.pc = target]),
               !.references =
                  addReference(@, i.pc, target, w.cpu.subroutinePC)]

\* A faulty end of CPU::branch, for comparison: the branch is taken but the
\* reference to its target is not recorded.
Finalize_NoBranchReference(w) ==
  LET i == w.cpu.wait.instruction
      kind == w.cpu.wait.kind
      targets == w.cpu.wait.targets
      w1 == [w EXCEPT !.cpu.wait = NoWait]
  IN CASE kind = "branch" ->
            [w1 EXCEPT !.cpu.pc = Value(absoluteArgument(i))]
       [] kind = "call" -> propagateSubroutineState(w1, i.pc, targets)
       [] kind = "jump" -> [w1 EXCEPT !.cpu.stop = TRUE]

\* What CPU::branch / call / jump do once every copy has run.
Finalize(w) ==
  LET i == w.cpu.wait.instruction
      kind == w.cpu.wait.kind
      targets == w.cpu.wait.targets
      w1 == [w EXCEPT !.cpu.wait = NoWait]
  IN CASE kind = "branch" ->
            LET target == Value(absoluteArgument(i))
            IN [w1 EXCEPT
                  !.references =
                     addReference(@, i.pc, target, w.cpu.subroutinePC),
                  !.cpu.pc = target]
       [] kind = "call" -> propagateSubroutineState(w1, i.pc, targets)
       [] kind = "jump" -> [w1 EXCEPT !.cpu.stop = TRUE]

\* The walker resumes: it spawns the copy for one of the remaining targets
\* (the iteration order of an unordered_set is unspecified) or finishes the
\* instruction it is executing.
Outcomes(w) ==
  IF w.cpu.wait.kind = "none" THEN {w}
  ELSE IF w.cpu.wait.remaining = {} THEN {Finalize(w)}
  ELSE {Spawn(w, t) : t \in w.cpu.wait.remaining}

\* The world as walker `cpu` sees it.
World(cpu) ==
  [instructions |-> instructions, subroutines |-> subroutines,
   references |-> references, jumpTables |-> jumpTables,
   executed |-> executed, recorded |-> recorded,
   cpu |-> cpu, child |-> Nullopt, result |-> Nullopt]

\* Write a world back, with `below` the frames under the walker.
Commit(w, below) ==
  /\ instructions' = w.instructions
  /\ subroutines' = w.subroutines
  /\ references' = w.references
  /\ jumpTables' = w.jumpTables
  /\ executed' = w.executed
  /\ recorded' = w.recorded
  /\ cpus' = below \o <<w.cpu>> \o
             (IF HasValue(w.child) THEN <<Value(w.child)>> ELSE <<>>)

Top == cpus[Len(cpus)]

(***************************************************************************)
(* Actions of the walk                                                     *)
(***************************************************************************)
\* One iteration of CPU::run: CPU::step, up to the point where it returns
\* or starts the run of a copy.
Step ==
  /\ runState = "walking"
  /\ cpus /= <<>>
  /\ ~Top.stop
  /\ \E w \in Outcomes(step(World(Top))) :
       Commit(w, SubSeq(cpus, 1, Len(cpus) - 1))
  /\ UNCHANGED <<units, rom, comments, customLabels,
                 entryPoints, assertions, pending, runState, runs, edits>>

\* cpu.run() of a copy returns: the walker that spawned it goes on.
Return ==
  /\ runState = "walking"
  /\ Len(cpus) >= 2
  /\ Top.stop
  /\ \E w \in Outcomes(World(cpus[Len(cpus) - 1])) :
       Commit(w, SubSeq(cpus, 1, Len(cpus) - 2))
  /\ UNCHANGED <<units, rom, comments, customLabels,
                 entryPoints, assertions, pending, runState, runs, edits>>

\* cpu.run() of an entry point's walker returns to Analysis::run.
EntryPointDone ==
  /\ runState = "walking"
  /\ Len(cpus) = 1
  /\ Top.stop
  /\ cpus' = <<>>
  /\ UNCHANGED <<units, rom, comments, customLabels,
                 entryPoints, assertions, jumpTables, instructions,
                 subroutines, references, pending, runState, runs, edits,
                 executed, recorded>>

(***************************************************************************)
(* Analysis::run and Analysis::generateLocalLabels                         *)
(***************************************************************************)
\* An EntryPoint; the set is hashed by pc, so it is a map from pc.
EntryPoint(label, pc, state) == [label |-> label, pc |-> pc, state |-> state]

\* Analysis::reset: the entry points of a freshly loaded ROM.
InitialEntryPoints(r) ==
  TryEmplace(resetVector(r) :> EntryPoint("reset", resetVector(r), DefaultState),
             nmiVector(r), EntryPoint("nmi", nmiVector(r), DefaultState))

\* A faulty start of Analysis::run, for comparison: reset() in place of
\* clear(), but for the entry points.
Run_Reset ==
  /\ runState \in {"idle", "done"}
  /\ runs < MaxRuns
  /\ instructions' = EmptyMap
  /\ subroutines' = EmptyMap
  /\ references' = {}
  /\ comments' = EmptyMap
  /\ assertions' = EmptyMap
  /\ jumpTables' = EmptyMap
  /\ executed' = <<>>
  /\ recorded' = {}
  /\ pending' = DOMAIN entryPoints
  /\ cpus' = <<>>
  /\ runState' = "walking"
  /\ runs' = runs + 1
  /\ UNCHANGED <<units, rom, customLabels, entryPoints, edits>>

\* Analysis::run, up to its loop: clear().
Run ==
  /\ runState \in {"idle", "done"}
  /\ runs < MaxRuns
  /\ instructions' = EmptyMap
  /\ subroutines' = EmptyMap
  /\ references' = {}
  /\ executed' = <<>>
  /\ recorded' = {}
  /\ pending' = DOMAIN entryPoints
  /\ cpus' = <<>>
  /\ runState' = "walking"
  /\ runs' = runs + 1
  /\ UNCHANGED <<units, rom, comments, customLabels,
                 entryPoints, assertions, jumpTables, edits>>

\* One iteration of the loop of Analysis::run, up to cpu.run().
WalkEntryPoint ==
  /\ runState = "walking"
  /\ cpus = <<>>
  /\ \E pc \in pending :
       LET e == entryPoints[pc]
       IN /\ subroutines' = addSubroutine(subroutines, e.pc, Some(e.label), TRUE)
          /\ cpus' = <<CPU(e.pc, e.pc, e.state)>>
          /\ pending' = pending \ {pc}
  /\ UNCHANGED <<units, rom, comments, customLabels,
                 entryPoints, assertions, jumpTables, instructions,
                 references, runState, runs, edits, executed, recorded>>

\* A faulty choice of the references to label, for comparison: without the
\* test subroutines.count(target) == 0.
LabelledReferences_All(refs, subs) == refs

\* The references generateLocalLabels gives a label to, and those among
\* them for which subroutine.instructions.at(target) throws.
LabelledReferences(refs, subs) == {r \in refs : r[2] \notin DOMAIN subs}
ThrowingReferences(refs, subs) ==
  {r \in LabelledReferences(refs, subs) :
     r[2] \notin DOMAIN subs[r[3]].instructions}

\* instruction->label = format("loc_%06X", target), for the references rs.
AssignLocalLabels(index, subs, rs) ==
  LET ids == {subs[r[3]].instructions[r[2]] : r \in rs}
  IN [id \in DOMAIN index |->
        IF id \in ids
        THEN [index[id] EXCEPT !.label = Some("loc_" \o Hex6(id[1]))]
        ELSE index[id]]

\* Analysis::generateLocalLabels, the end of Analysis::run.  When a
\* reference makes map::at throw, the run ends by the exception, with the
\* labels of the references iterated before it.
GenerateLocalLabels ==
  /\ runState = "walking"
  /\ cpus = <<>>
  /\ pending = {}
  /\ LET all == LabelledReferences(references, subroutines)
         bad == ThrowingReferences(references, subroutines)
     IN IF bad = {}
        THEN /\ instructions' = AssignLocalLabels(instructions, subroutines, all)
             /\ runState' = "done"
        ELSE /\ \E before \in SUBSET (all \ bad) :
                  instructions' =
                    AssignLocalLabels(instructions, subroutines, before)
             /\ runState' = "crashed"
  /\ UNCHANGED <<units, rom, comments, customLabels,
                 entryPoints, assertions, jumpTables, subroutines,
                 references, cpus, pending, runs, edits, executed, recorded>>

(***************************************************************************)
(* User edits (between runs)                                               *)
(***************************************************************************)
Editable == runState \in {"idle", "done"} /\ edits < MaxEdits

Assertion(assertionType, stateChange) ==
  [type |-> assertionType, stateChange |-> stateChange]

\* The sites and values the user asserts on: the sites where the last run
\* recorded an unknown state change (CPU::unknownStateChange, the one reader
\* of the assertions, reads them at such sites).
AssertionSites ==
  UNION {{<<pc, s>> : pc \in DOMAIN subroutines[s].unknownStateChanges} :
           s \in DOMAIN subroutines}
AssertedChanges ==
  {EmptyStateChange, StateChange(Some(FALSE), Some(FALSE))}

\* A faulty addAssertion, for comparison: it also clears the derived data.
AddAssertion_Clearing ==
  /\ Editable
  /\ \E site \in AssertionSites, t \in {"Instruction", "Subroutine"},
        sc \in AssertedChanges :
       assertions' = Put(assertions, site, Assertion(t, sc))
  /\ edits' = edits + 1
  /\ instructions' = EmptyMap
  /\ subroutines' = EmptyMap
  /\ references' = {}
  /\ UNCHANGED <<units, rom, comments, customLabels,
                 entryPoints, jumpTables, cpus, pending, runState, runs,
                 executed, recorded>>

\* Analysis::addAssertion.
AddAssertion ==
  /\ Editable
  /\ \E site \in AssertionSites, t \in {"Instruction", "Subroutine"},
        sc \in AssertedChanges :
       assertions' = Put(assertions, site, Assertion(t, sc))
  /\ edits' = edits + 1
  /\ UNCHANGED <<units, rom, comments, customLabels,
                 entryPoints, jumpTables, instructions, subroutines,
                 references, cpus, pending, runState, runs, executed, recorded>>

\* Analysis::removeAssertion.
RemoveAssertion ==
  /\ Editable
  /\ \E site \in DOMAIN assertions :
       assertions' = [k \in DOMAIN assertions \ {site} |-> assertions[k]]
  /\ edits' = edits + 1
  /\ UNCHANGED <<units, rom, comments, customLabels,
                 entryPoints, jumpTables, instructions, subroutines,
                 references, cpus, pending, runState, runs, executed, recorded>>

\* A faulty addEntryPoint, for comparison: the entry of a pc already in the
\* set is replaced.
AddEntryPoint_Assign ==
  /\ Editable
  /\ \E pc \in DOMAIN subroutines \cup {r[2] : r \in references},
        state \in {DefaultState, StateOf(FALSE, FALSE)} :
       entryPoints' = Put(entryPoints, pc, EntryPoint("entry", pc, state))
  /\ edits' = edits + 1
  /\ UNCHANGED <<units, rom, comments, customLabels,
                 assertions, jumpTables, instructions, subroutines,
                 references, cpus, pending, runState, runs, executed, recorded>>

\* Analysis::addEntryPoint: emplace into the set hashed by pc.
AddEntryPoint ==
  /\ Editable
  /\ \E pc \in DOMAIN subroutines \cup {r[2] : r \in references},
        state \in {DefaultState, StateOf(FALSE, FALSE)} :
       entryPoints' = TryEmplace(entryPoints, pc, EntryPoint("entry", pc, state))
  /\ edits' = edits + 1
  /\ UNCHANGED <<units, rom, comments, customLabels,
                 assertions, jumpTables, instructions, subroutines,
                 references, cpus, pending, runState, runs, executed, recorded>>

\* Instruction::setComment, on the instruction at the reset vector: a text
\* where there is no comment, the empty text (which erases) where there is.
SetComment ==
  /\ Editable
  /\ \E pc \in {resetVector(rom)} \cap {id[1] : id \in DOMAIN instructions},
        comment \in {"", "note"} :
       /\ (comment = "") = (pc \in DOMAIN comments)
       /\ comments' =
            IF comment = ""
            THEN [k \in DOMAIN comments \ {pc} |-> comments[k]]
            ELSE Put(comments, pc, comment)
  /\ edits' = edits + 1
  /\ UNCHANGED <<units, rom, customLabels, entryPoints, assertions, jumpTables,
                 instructions, subroutines, references, cpus, pending,
                 runState, runs, executed, recorded>>

\* Analysis::renameLabel, on the label of the reset subroutine (the label
\* the disassembly shows first): a custom label is registered at the PCPair.
RenameLabel ==
  /\ Editable
  /\ \E pc \in {resetVector(rom)} \cap DOMAIN subroutines :
       /\ <<pc, pc>> \notin DOMAIN customLabels
       /\ customLabels' = Put(customLabels, <<pc, pc>>, "main")
  /\ edits' = edits + 1
  /\ UNCHANGED <<units, rom, comments, entryPoints, assertions, jumpTables,
                 instructions, subroutines, references, cpus, pending,
                 runState, runs, executed, recorded>>

\* Analysis::getLabel(pc, subroutinePC): the label returned, or thrown set
\* when map::at throws.
Returned(label) == [thrown |-> FALSE, label |-> label]
Thrown == [thrown |-> TRUE, label |-> Nullopt]
getLabel(pc, subroutinePC) ==
  IF pc \in DOMAIN subroutines THEN Returned(Some(subroutines[pc].label))
  ELSE IF ~HasValue(subroutinePC) THEN Returned(Nullopt)
  ELSE IF Value(subroutinePC) \notin DOMAIN subroutines THEN Thrown
  ELSE LET subroutine == subroutines[Value(subroutinePC)]
       IN IF pc \notin DOMAIN subroutine.instructions THEN Thrown
          ELSE LET label == instructions[subroutine.instructions[pc]].label
               IN Returned(IF HasValue(label)
                           THEN Some("." \o Value(label))
                           ELSE Nullopt)

\* Analysis::anyInstruction.
anyInstruction(index, pc) ==
  IF \E id \in DOMAIN index : id[1] = pc
  THEN Some(InstructionAt(index, CHOOSE id \in DOMAIN index : id[1] = pc))
  ELSE Nullopt

\* A faulty reading of the jump table, for comparison: one byte per pointer.
JumpTableTargets_Bytes(r, caller, range) ==
  LET bank == (caller.pc \div 65536) * 65536
      keys == {x \in range[1]..range[2] : (x - range[1]) % 2 = 0}
  IN [x \in keys |->
        BitOr(bank, readByte(r, BitOr(bank, Value(argument(caller)) + x)))]

\* The targets Analysis::defineJumpTable reads from the ROM.
JumpTableTargets(r, caller, range) ==
  LET bank == (caller.pc \div 65536) * 65536
      keys == {x \in range[1]..range[2] : (x - range[1]) % 2 = 0}
  IN [x \in keys |->
        BitOr(bank, readWord(r, BitOr(bank, Value(argument(caller)) + x)))]

\* Analysis::defineJumpTable.
DefineJumpTable ==
  /\ Editable
  /\ \E callerPC \in DOMAIN jumpTables, range \in {<<0, 0>>, <<0, 2>>},
        status \in {"Partial", "Complete"} :
       /\ HasValue(anyInstruction(instructions, callerPC))
       /\ jumpTables' =
            Put(jumpTables, callerPC,
                [status |-> status,
                 targets |->
                    JumpTableTargets(
                      rom, Value(anyInstruction(instructions, callerPC)),
                      range)])
  /\ edits' = edits + 1
  /\ UNCHANGED <<units, rom, comments, customLabels,
                 entryPoints, assertions, instructions, subroutines,
                 references, cpus, pending, runState, runs, executed, recorded>>

\* Analysis::undefineJumpTable.
UndefineJumpTable ==
  /\ Editable
  /\ \E callerPC \in DOMAIN jumpTables :
       jumpTables' = Put(jumpTables, callerPC, UnknownJumpTable)
  /\ edits' = edits + 1
  /\ UNCHANGED <<units, rom, comments, customLabels,
                 entryPoints, assertions, instructions, subroutines,
                 references, cpus, pending, runState, runs, executed, recorded>>

(***************************************************************************)
(* ROM images                                                              *)
(***************************************************************************)
\* `org address` followed by bytes, in a LoROM image.
Org(address, bytes) ==
  LET base == translate("LoROM", address)
  IN [o \in base..(base + Len(bytes) - 1) |-> bytes[o - base + 1]]

\* A LoROM image with the reset vector at $8000 and the NMI vector nmi.
LoROM(nmi, code) ==
  [romType |-> "LoROM",
   data |-> code @@ Org(HeaderRESET, <<\H00, \H80>>)
                 @@ Org(HeaderNMI, <<nmi % 256, nmi \div 256>>)]

\* reset: jmp reset
InfiniteLoopROM == LoROM(0, Org(\H8000, <<\H4C, \H00, \H80>>))

\* reset: sep #$30 / jsr sub / lda #imm / ldx #imm / jmp self
\* sub:   rep #$30 / rts
StateChangeROM ==
  LoROM(0, Org(\H8000,
    <<\HE2, \H30, \H20, \H0E, \H80, \HA9, \HEA, \HEA, \HA2, \HEA, \HEA,
      \H4C, \H0B, \H80, \HC2, \H30, \H60>>))

\* reset: sep #$20 / jsr sub / lda #imm / jmp self
\* sub:   bcs + / lda #imm / +: rep #$20 / lda #imm16 / sep #$20 / rts
ElidableStateChangeROM ==
  LoROM(0, Org(\H8000,
    <<\HE2, \H20, \H20, \H0A, \H80, \HA9, \HEA, \H4C, \H07, \H80,
      \HB0, \H02, \HA9, \HEA, \HC2, \H20, \HA9, \HEA, \HEA, \HE2, \H20,
      \H60>>))

\* reset: jsr sub / jmp self        sub: php / rep #$30 / plp / rts
PhpPlpROM ==
  LoROM(0, Org(\H8000,
    <<\H20, \H06, \H80, \H4C, \H03, \H80, \H08, \HC2, \H30, \H28, \H60>>))

\* reset: rep #$30 / jsr sub / lda #imm16 / ldx #imm16 / jmp self
\* sub:   bcs + / rep #$20 / rts / +: rep #$10 / rts
SimplifiedStateChangesROM ==
  LoROM(0, Org(\H8000,
    <<\HC2, \H30, \H20, \H0E, \H80, \HA9, \HEA, \HEA, \HA2, \HEA, \HEA,
      \H4C, \H0B, \H80, \HB0, \H03, \HC2, \H20, \H60, \HC2, \H10, \H60>>))

\* reset: rep #$20 / jsr sub / lda #imm16 / jmp self
\* sub:   jmp ($9000) / rts         $9000: dw $800E
UnknownJumpROM ==
  LoROM(0, Org(\H8000,
    <<\HC2, \H20, \H20, \H0B, \H80, \HA9, \HEA, \HEA, \H4C, \H08, \H80,
      \H6C, \H00, \H90, \H60>>) @@ Org(\H9000, <<\H0E, \H80>>))

\* reset: rep #$20 / jsr sub / jmp self
\* sub:   pla / lda #$8004 / pha / rts
StackManipulationROM ==
  LoROM(0, Org(\H8000,
    <<\HC2, \H20, \H20, \H08, \H80, \H4C, \H05, \H80, \H68, \HA9, \H04,
      \H80, \H48, \H60>>))

\* reset: jsr (table,x) / jmp self / table: dw $8100, $8200
\* $8100: rep #$20 / rts            $8200: rts
JumpTablesROM ==
  LoROM(0, Org(\H8000, <<\HFC, \H06, \H80, \H4C, \H03, \H80, \H00, \H81,
                         \H00, \H82>>)
           @@ Org(\H8100, <<\HC2, \H20, \H60>>) @@ Org(\H8200, <<\H60>>))

\* reset: jmp ($9000)               $9000: dw $8100, $8200
\* $8100: jmp $8100                 $8200: jmp $8200
IndirectJumpROM ==
  LoROM(0, Org(\H8000, <<\H6C, \H00, \H90>>)
           @@ Org(\H9000, <<\H00, \H81, \H00, \H82>>)
           @@ Org(\H8100, <<\H4C, \H00, \H81>>)
           @@ Org(\H8200, <<\H4C, \H00, \H82>>))

\* reset: jsr sub / jmp self        sub: bcs + / brk / +: brk
TwoUnknownsROM ==
  LoROM(0, Org(\H8000, <<\H20, \H06, \H80, \H4C, \H03, \H80, \HB0, \H02,
                         \H00, \H00, \H00, \H00>>))

\* reset: jmp $1000 (RAM)
JumpToRAMROM == LoROM(0, Org(\H8000, <<\H4C, \H00, \H10>>))

\* reset: jsr $1000 (RAM) / jmp self
CallToRAMROM ==
  LoROM(0, Org(\H8000, <<\H20, \H00, \H10, \H4C, \H03, \H80>>))

\* reset: jsr sub / jmp self        sub: bcs + / rep #$20 / +: rts
SharedReturnROM ==
  LoROM(0, Org(\H8000,
    <<\H20, \H06, \H80, \H4C, \H03, \H80, \HB0, \H02, \HC2, \H20, \H60>>))

\* reset: jsr reset / rts
RecursionROM == LoROM(0, Org(\H8000, <<\H20, \H00, \H80, \H60>>))

\* reset: jsr sub / nop / rts       sub: jmp sub
LoopingCalleeROM ==
  LoROM(0, Org(\H8000, <<\H20, \H05, \H80, \HEA, \H60, \H4C, \H05, \H80>>))

\* The empty image: reset: brk
EmptyROM == LoROM(0, EmptyMap)

\* reset: jsr nmi / jmp self        nmi ($8010): rts, also the NMI vector
SharedEntryROM ==
  LoROM(\H8010, Org(\H8000, <<\H20, \H10, \H80, \H4C, \H03, \H80>>)
                  @@ Org(\H8010, <<\H60>>))

\* reset: jsl sub / jmp self / nop  sub ($8008): rtl; nmi ($8010): rti
LongCallROM ==
  LoROM(\H8010, Org(\H8000, <<\H22, \H08, \H80, \H00, \H4C, \H04, \H80,
                              \HEA, \H6B>>)
                  @@ Org(\H8010, <<\H40>>))

\* reset: bra + / +: brl reset
BranchAlwaysROM ==
  LoROM(0, Org(\H8000, <<\H80, \H00, \H82, \HFB, \HFF>>))

\* reset: lda #imm / rep #$20 / jsr sub / jmp self
\* sub ($800A): sep #$20 / rts
InheritedInferenceROM ==
  LoROM(0, Org(\H8000,
    <<\HA9, \H00, \HC2, \H20, \H20, \H0A, \H80, \H4C, \H07, \H80,
      \HE2, \H20, \H60>>))

\* reset: jsr sub / rep #$20 / jsr sub / rep #$10 / jsr sub / jmp self
\* sub ($8010): lda #imm / (nop, when m = 1) / sep #$20 / rts
ReenteredCalleeROM ==
  LoROM(0, Org(\H8000,
    <<\H20, \H10, \H80, \HC2, \H20, \H20, \H10, \H80, \HC2, \H10,
      \H20, \H10, \H80, \H4C, \H0D, \H80>>)
           @@ Org(\H8010, <<\HA9, \HEA, \HEA, \HE2, \H20, \H60>>))

\* reset: jsr a / jmp self          a ($8006): jsr b / rts
\* b ($800A): pld / rts
DiscardedReturnROM ==
  LoROM(0, Org(\H8000,
    <<\H20, \H06, \H80, \H4C, \H03, \H80, \H20, \H0A, \H80, \H60,
      \H2B, \H60>>))

ROMs ==
  {InfiniteLoopROM, StateChangeROM, ElidableStateChangeROM, PhpPlpROM,
   SimplifiedStateChangesROM, UnknownJumpROM, StackManipulationROM,
   JumpTablesROM, JumpToRAMROM, CallToRAMROM, SharedReturnROM, RecursionROM,
   LoopingCalleeROM, EmptyROM, SharedEntryROM, LongCallROM, BranchAlwaysROM,
   IndirectJumpROM, TwoUnknownsROM, InheritedInferenceROM,
   ReenteredCalleeROM, DiscardedReturnROM}

(***************************************************************************)
(* Specification                                                           *)
(***************************************************************************)
\* Analysis::Analysis(rom): reset() on a freshly loaded ROM.
Init ==
  /\ rom \in ROMs
  /\ entryPoints = InitialEntryPoints(rom)
  /\ assertions = EmptyMap
  /\ comments = EmptyMap
  /\ customLabels = EmptyMap
  /\ jumpTables = EmptyMap
  /\ instructions = EmptyMap
  /\ subroutines = EmptyMap
  /\ references = {}
  /\ cpus = <<>>
  /\ pending = {}
  /\ runState = "idle"
  /\ runs = 0
  /\ edits = 0
  /\ executed = <<>>
  /\ recorded = {}
  /\ stackCase = Nullopt
  /\ romCase = Nullopt
  /\ undoCase = Nullopt
  /\ changeCase = Nullopt

Next ==
  \/ Run
  \/ WalkEntryPoint
  \/ Step
  \/ Return
  \/ EntryPointDone
  \/ GenerateLocalLabels
  \/ AddAssertion
  \/ RemoveAssertion
  \/ AddEntryPoint
  \/ DefineJumpTable
  \/ UndefineJumpTable
  \/ SetComment
  \/ RenameLabel

Spec == Init /\ [][Next]_vars

(***************************************************************************)
(* Properties                                                              *)
(***************************************************************************)
\* The walker under the top one, and the moment a call's last copy has run.
Caller == cpus[Len(cpus) - 1]
CallReturning ==
  /\ runState = "walking"
  /\ Len(cpus) >= 2
  /\ Top.stop
  /\ Caller.wait.kind = "call"
  /\ Caller.wait.remaining = {}
CallSite == Caller.wait.instruction.pc
CallTargets == Caller.wait.targets
\* The caller once the call has returned.
CallerAfter == cpus'[Len(cpus) - 1]

\* C1: Analysis.run terminates, whatever the ROM, the entry points, the
\* assertions and the jump tables: every walker eventually sets stop.  CPU::run
\* repeats CPU::step while stop is unset, so this requires that no walker is
\* ever in a state with stop unset that its next step leaves unchanged (the
\* loop would repeat that step for ever).
C1_RunTerminates ==
  (runState = "walking" /\ cpus /= <<>> /\ ~Top.stop) =>
    \A w \in Outcomes(step(World(Top))) :
      <<w.instructions, w.subroutines, w.references, w.jumpTables, w.cpu,
        w.child>>
        /= <<instructions, subroutines, references, jumpTables, Top, Nullopt>>

\* The deltas the targets of the returning call hold, each simplified
\* against the caller's state: unset the flags equal to the caller's.
C2_Simplified(sc, state) ==
  <<IF sc.m = Some(StateM(state)) THEN Nullopt ELSE sc.m,
    IF sc.x = Some(StateX(state)) THEN Nullopt ELSE sc.x>>
C2_Deltas ==
  UNION {{C2_Simplified(subroutines[t].knownStateChanges[pc], Caller.state) :
            pc \in DOMAIN subroutines[t].knownStateChanges} :
           t \in CallTargets}
C2_NoUnknownTarget ==
  \A t \in CallTargets : DOMAIN subroutines[t].unknownStateChanges = {}

\* C2: when a call returns, no target holds an unknown state change and the
\* targets' known deltas simplify to exactly one delta d, the caller takes
\* d's set flags into state and stateChange, keeps the other flags and bits,
\* does not stop, and stands at the instruction after the call; the next
\* instruction a walker decodes is the one at its pc under its state.
C2_SingleDeltaApplied ==
  [][/\ (CallReturning /\ C2_NoUnknownTarget /\ Cardinality(C2_Deltas) = 1) =>
          LET d == CHOOSE sc \in C2_Deltas : TRUE
              i == Caller.wait.instruction
          IN /\ StateM(CallerAfter.state) =
                  (IF HasValue(d[1]) THEN Value(d[1]) ELSE StateM(Caller.state))
             /\ StateX(CallerAfter.state) =
                  (IF HasValue(d[2]) THEN Value(d[2]) ELSE StateX(Caller.state))
             /\ CallerAfter.state % MaskX = Caller.state % MaskX
             /\ CallerAfter.state \div (2 * MaskM) = Caller.state \div (2 * MaskM)
             /\ CallerAfter.stateChange.m =
                  (IF HasValue(d[1]) THEN d[1] ELSE Caller.stateChange.m)
             /\ CallerAfter.stateChange.x =
                  (IF HasValue(d[2]) THEN d[2] ELSE Caller.stateChange.x)
             /\ ~CallerAfter.stop
             /\ CallerAfter.pc = i.pc + size(InstructionAt(instructions, Identity(i)))
             /\ Len(cpus') = Len(cpus) - 1
     /\ (runState = "walking" /\ Len(executed') = Len(executed) + 1) =>
          executed'[Len(executed')] = <<Top.pc, Top.subroutinePC, Top.state>>
    ]_vars

\* C2 witness: in the state_change ROM the call of $800E has returned the
\* delta (m = 0, x = 0): reset stands at $8005 in 16-bit state.
C2_Witness ==
  /\ rom = StateChangeROM
  /\ runState = "walking"
  /\ Len(cpus) = 1
  /\ Top.pc = \H8005
  /\ Top.subroutinePC = \H8000
  /\ ~StateM(Top.state) /\ ~StateX(Top.state)
  /\ Top.stateChange.m = Some(FALSE) /\ Top.stateChange.x = Some(FALSE)
  /\ Top.wait.kind = "none"
  /\ ~Top.stop

\* The known deltas the walks of the targets have recorded this run, on any
\* return path, simplified against the caller's state.
C3_ReturnedDeltas ==
  {C2_Simplified(r[3], Caller.state) :
     r \in {q \in recorded : q[1] \in CallTargets /\ ~unknown(q[3])}}

\* C3: when a call returns whose targets' walks left through return paths
\* with two known deltas that differ after simplification against the
\* caller's state (no target holding an unknown state change, no assertion
\* at the call site), the caller's subroutine records MultipleReturnStates at
\* the call site and the caller stops.
C3_MultipleReturnStates ==
  [][(/\ CallReturning
      /\ C2_NoUnknownTarget
      /\ getAssertion(CallSite, Caller.subroutinePC).type = "None"
      /\ Cardinality(C3_ReturnedDeltas) >= 2) =>
       /\ CallerAfter.stop
       /\ CallSite \in
            DOMAIN subroutines'[Caller.subroutinePC].unknownStateChanges
       /\ subroutines'[Caller.subroutinePC].unknownStateChanges[CallSite]
            .unknownReason = "MultipleReturnStates"
    ]_vars

\* C4: when a call returns and a target holds an unknown state change, with
\* no assertion at the call site, the caller records an unknown state change
\* with reason Unknown at the call's pc in its own subroutine, applies no
\* delta (state and stateChange stay as they are) and stops.
C4_UnknownCalleePropagates ==
  [][(/\ CallReturning
      /\ ~C2_NoUnknownTarget
      /\ getAssertion(CallSite, Caller.subroutinePC).type = "None") =>
       /\ CallSite \in
            DOMAIN subroutines'[Caller.subroutinePC].unknownStateChanges
       /\ subroutines'[Caller.subroutinePC].unknownStateChanges[CallSite]
            .unknownReason = "Unknown"
       /\ CallerAfter.state = Caller.state
       /\ CallerAfter.stateChange = Caller.stateChange
       /\ CallerAfter.stop
    ]_vars

\* C4 witness: in the unknown_jump ROM the callee $800B holds IndirectJump
\* and reset has stopped with Unknown recorded at the call site $8002.
C4_Witness ==
  /\ rom = UnknownJumpROM
  /\ runState = "walking"
  /\ Len(cpus) = 1
  /\ Top.subroutinePC = \H8000
  /\ Top.stop
  /\ isUnknownBecauseOf(subroutines[\H800B], "IndirectJump")
  /\ \H8002 \in DOMAIN subroutines[\H8000].unknownStateChanges
  /\ subroutines[\H8000].unknownStateChanges[\H8002].unknownReason = "Unknown"

\* The instruction the top walker is about to fetch is already in the index.
C5_DuplicatePending ==
  /\ runState = "walking"
  /\ cpus /= <<>>
  /\ ~Top.stop
  /\ ~isRAM(Top.pc)
  /\ <<Top.pc, Top.subroutinePC, Top.state>> \in DOMAIN instructions

\* C5: addInstruction on an identity already in the index returns none and
\* changes neither the index nor any subroutine's instruction map; the
\* walker stops without executing it; no identity is executed twice in a run.
C5_DuplicateStopsWalker ==
  [][/\ C5_DuplicatePending =>
          /\ ~HasValue(
                addInstruction(
                  World(Top),
                  Instruction(Top.pc, Top.subroutinePC, readByte(rom, Top.pc),
                              readAddress(rom, Top.pc + 1), Top.state)).result)
          /\ instructions' = instructions
          /\ subroutines' = subroutines
          /\ executed' = executed
          /\ cpus' = [cpus EXCEPT ![Len(cpus)].stop = TRUE]
     /\ \A a, b \in 1..Len(executed') :
          executed'[a] = executed'[b] => a = b
    ]_vars

\* C5 witness: in the infinite_loop ROM the copy that follows jmp reset has
\* met the jump again and has stopped; the jump was executed once.
C5_Witness ==
  /\ rom = InfiniteLoopROM
  /\ runState = "walking"
  /\ Len(cpus) = 2
  /\ Top.pc = \H8000
  /\ Top.stop
  /\ executed = <<<<\H8000, \H8000, DefaultState>>>>
  /\ DOMAIN instructions = {<<\H8000, \H8000, DefaultState>>}

\* C6: after a run, every instruction i of the index belongs to a registered
\* subroutine whose instructions map sends i.pc to i itself.
C6_InstructionInItsSubroutine ==
  runState = "done" =>
    \A id \in DOMAIN instructions :
      /\ id[2] \in DOMAIN subroutines
      /\ id[1] \in DOMAIN subroutines[id[2]].instructions
      /\ subroutines[id[2]].instructions[id[1]] = id

\* C7: after a run, every subroutine has a known or an unknown state change.
C7_SubroutineHasStateChange ==
  runState = "done" =>
    \A s \in DOMAIN subroutines :
      \/ DOMAIN subroutines[s].knownStateChanges /= {}
      \/ DOMAIN subroutines[s].unknownStateChanges /= {}

\* C8: when a jump, call or taken branch of the walk targets a RAM address,
\* the run completes without an error, no instruction is decoded at that
\* address, and the subroutine the walker was in there (the jumping one, or
\* the called one) holds an unknown state change with reason MutableCode.
C8_JumpToRAMCompletes ==
  \A r \in references :
    isRAM(r[2]) =>
      /\ runState /= "crashed"
      /\ runState = "done" =>
           /\ \A id \in DOMAIN instructions : id[1] /= r[2]
           /\ \E s \in {r[2], r[3]} \cap DOMAIN subroutines :
                isUnknownBecauseOf(subroutines[s], "MutableCode")

\* C9: after a run, every instruction that carries a local label has a pc
\* that is the target of a reference and is not the pc of a subroutine.
C9_LocalLabelIsLocalTarget ==
  runState \in {"done", "crashed"} =>
    \A id \in DOMAIN instructions :
      HasValue(instructions[id].label) =>
        /\ \E r \in references : r[2] = id[1]
        /\ id[1] \notin DOMAIN subroutines

\* C9 witness: the shared_return ROM after its run: $800A, the target of the
\* bcs, carries loc_00800A, and the jsr's reference targets a subroutine.
C9_Witness ==
  /\ rom = SharedReturnROM
  /\ runState = "done"
  /\ <<\H8000, \H8006, \H8000>> \in references
  /\ \E id \in DOMAIN instructions :
       id[1] = \H800A /\ instructions[id].label = Some("loc_00800A")

\* C10: after a run, every reference (src, dst, sub) has an instruction of
\* the index at src and a subroutine at sub.
C10_ReferenceEndsExist ==
  runState \in {"done", "crashed"} =>
    \A r \in references :
      /\ \E id \in DOMAIN instructions : id[1] = r[1]
      /\ r[3] \in DOMAIN subroutines

\* C10 witness: the call_to_ram ROM after its run, with the reference of the
\* jsr at $8000 to $1000.
C10_Witness ==
  /\ rom = CallToRAMROM
  /\ runState = "done"
  /\ <<\H8000, \H1000, \H8000>> \in references

\* The top walker is about to fetch and decode an instruction, and the
\* instruction CPU::step builds at its pc.
Stepping == runState = "walking" /\ cpus /= <<>> /\ ~Top.stop /\ ~isRAM(Top.pc)
Fetched ==
  Instruction(Top.pc, Top.subroutinePC, readByte(rom, Top.pc),
              readAddress(rom, Top.pc + 1), Top.state)
\* This step passes Fetched to CPU::execute.
Executing == Stepping /\ Len(executed') = Len(executed) + 1
\* The top walker once the step is done, when the step started no copy.
TopAfter == cpus'[Len(cpus)]

\* A flag of a state change after SEP/REP with operand byte `arg` whose bit
\* `mask` selects the flag, then after the inference step against `inferred`.
C11_AfterSepRep(flag, op, arg, mask) ==
  IF (arg \div mask) % 2 = 1 THEN Some(op = "SEP") ELSE flag
C11_Elided(flag, inferred) ==
  IF HasValue(flag) /\ HasValue(inferred) /\ Value(flag) = Value(inferred)
  THEN Nullopt ELSE flag

\* C11: after SEP or REP has updated state and stateChange, every flag of
\* stateChange that is set and equals the corresponding set flag of
\* stateInference is cleared, and nothing else is altered by the inference
\* step (the other flag, the unknown reason, the state, the inference itself);
\* hence in the elidable_state_change ROM walked from its initial entry
\* points, the subroutine at $800A (entered with m = 1; lda #imm fixes the
\* inference, rep #$20, lda #imm, sep #$20, rts) ends the run with a single
\* known state change, which is empty, and no unknown one.
C11_InferenceElidesFlags ==
  [][/\ (Executing /\ operation(Fetched) \in {"SEP", "REP"}) =>
          LET op == operation(Fetched)
              arg == readByte(rom, Top.pc + 1)
              m == C11_AfterSepRep(Top.stateChange.m, op, arg, MaskM)
              x == C11_AfterSepRep(Top.stateChange.x, op, arg, MaskX)
          IN /\ Len(cpus') = Len(cpus)
             /\ TopAfter.stateChange.m = C11_Elided(m, Top.stateInference.m)
             /\ TopAfter.stateChange.x = C11_Elided(x, Top.stateInference.x)
             /\ TopAfter.stateChange.unknownReason =
                  Top.stateChange.unknownReason
             /\ TopAfter.stateInference = Top.stateInference
             /\ TopAfter.state =
                  (IF op = "SEP" THEN BitOr(Top.state, arg)
                   ELSE BitClear(Top.state, arg))
     /\ (/\ rom = ElidableStateChangeROM
         /\ entryPoints = InitialEntryPoints(rom)
         /\ runState' = "done") =>
          /\ DOMAIN subroutines'[\H800A].knownStateChanges = {\H8015}
          /\ isEmpty(subroutines'[\H800A].knownStateChanges[\H8015])
          /\ DOMAIN subroutines'[\H800A].unknownStateChanges = {}
    ]_vars

\* C11 witness: the elidable_state_change ROM after its run: the sep #$20 at
\* $8013 was executed with the inference m = 1 fixed, and the rts at $8015
\* recorded the empty state change.
C11_Witness ==
  /\ rom = ElidableStateChangeROM
  /\ runState = "done"
  /\ \E k \in 1..Len(executed) :
       executed[k][1] = \H8013 /\ executed[k][2] = \H800A
  /\ <<\H800A, \H8015, EmptyStateChange>> \in recorded

\* The stack cell the top walker's next pop reads, and the producer of a
\* stack entry as an instruction of the index.
NextPopped ==
  LET pointer == (Top.stack.pointer + 1) % 65536
  IN IF pointer \in DOMAIN Top.stack.memory THEN Top.stack.memory[pointer]
     ELSE EmptyStackEntry
ProducedBy(entry, op) ==
  /\ HasValue(entry.instruction)
  /\ operation(InstructionAt(instructions, Value(entry.instruction))) = op

\* The cells of `before` are those of `after`, but for cells `after` holds
\* as written by instruction `id`.
C12_CellsKept(before, after, id) ==
  \A a \in DOMAIN before.memory :
    /\ a \in DOMAIN after.memory
    /\ \/ after.memory[a] = before.memory[a]
       \/ after.memory[a].instruction = Some(id)

\* C12: PHP stores in the cell under the stack pointer the walker's state and
\* stateChange, tagged by the PHP, and moves the pointer one down; a cell of
\* a walker's stack, once written, keeps its entry until a push instruction
\* or a call overwrites it with an entry tagged by itself, through SEP/REP,
\* propagated deltas and the copies of the walker; PLP moves the pointer one
\* up and, when the producer of the cell there is a PHP, state and
\* stateChange become exactly the pair of that cell, whatever they were, the
\* walker goes on and records nothing.  Hence in the php_plp ROM walked from
\* its initial entry points the subroutine $8006 (php / rep #$30 / plp / rts)
\* ends the run with a single known state change, which is empty.
C12_PlpRestoresPhp ==
  [][/\ (Executing /\ operation(Fetched) = "PHP") =>
          /\ Len(cpus') = Len(cpus)
          /\ TopAfter.stack.pointer = (Top.stack.pointer + 65535) % 65536
          /\ TopAfter.stack.memory[Top.stack.pointer] =
               StackEntry(Some(Identity(Fetched)),
                          <<"state", Top.state, Top.stateChange>>)
          /\ TopAfter.state = Top.state
          /\ TopAfter.stateChange = Top.stateChange
     /\ (Executing /\ operation(Fetched) = "PLP"
           /\ ProducedBy(NextPopped, "PHP")) =>
          /\ Len(cpus') = Len(cpus)
          /\ TopAfter.stack.pointer = (Top.stack.pointer + 1) % 65536
          /\ TopAfter.stack.memory = Top.stack.memory
          /\ TopAfter.state = NextPopped.data[2]
          /\ TopAfter.stateChange = NextPopped.data[3]
          /\ ~TopAfter.stop
          /\ recorded' = recorded
     /\ Executing =>
          /\ C12_CellsKept(Top.stack, TopAfter.stack, Identity(Fetched))
          /\ type(Fetched) \notin {"Push", "Call"} =>
               TopAfter.stack.memory = Top.stack.memory
     /\ (runState = "walking" /\ cpus /= <<>>
           /\ Len(cpus') = Len(cpus) + 1) =>
          /\ cpus'[Len(cpus)].stack = Top.stack
          /\ C12_CellsKept(Top.stack, cpus'[Len(cpus')].stack,
                           Identity(cpus'[Len(cpus)].wait.instruction))
     /\ (runState = "walking" /\ Len(cpus) >= 2 /\ Len(cpus') <= Len(cpus)
           /\ cpus' /= <<>> /\ Top.stop) =>
          cpus'[Len(cpus) - 1].stack = Caller.stack
     /\ (/\ rom = PhpPlpROM
         /\ entryPoints = InitialEntryPoints(rom)
         /\ runState' = "done") =>
          /\ DOMAIN subroutines'[\H8006].knownStateChanges = {\H800A}
          /\ isEmpty(subroutines'[\H8006].knownStateChanges[\H800A])
          /\ DOMAIN subroutines'[\H8006].unknownStateChanges = {}
    ]_vars

\* C12 witness: in the php_plp ROM the walker of $8006 has just executed the
\* plp at $8009 in 16-bit state with the delta (m = 0, x = 0): it stands at
\* the rts in the state the php saved, with the empty delta.
C12_Witness ==
  /\ rom = PhpPlpROM
  /\ runState = "walking"
  /\ Len(cpus) = 2
  /\ executed /= <<>>
  /\ executed[Len(executed)] = <<\H8009, \H8006, StateOf(FALSE, FALSE)>>
  /\ Top.pc = \H800A
  /\ Top.state = DefaultState
  /\ Top.stateChange = EmptyStateChange
  /\ ~Top.stop

\* The stack cell k cells above the top walker's stack pointer.
CellAbove(k) ==
  LET pointer == (Top.stack.pointer + k) % 65536
  IN IF pointer \in DOMAIN Top.stack.memory THEN Top.stack.memory[pointer]
     ELSE EmptyStackEntry

\* The return the top walker executes in this step: the number of entries it
\* pops, whether each has the producer the return expects, and the
\* subroutine it is in before and after the step.
C13_Returning == Executing /\ operation(Fetched) \in {"RTS", "RTL"}
C13_Size == IF operation(Fetched) = "RTS" THEN 2 ELSE 3
C13_Consistent ==
  \A k \in 1..C13_Size :
    ProducedBy(CellAbove(k),
               IF operation(Fetched) = "RTS" THEN "JSR" ELSE "JSL")
C13_Sub == subroutines[Top.subroutinePC]
C13_SubAfter == subroutines'[Top.subroutinePC]
C13_Standard ==
  /\ C13_SubAfter.knownStateChanges =
       Put(C13_Sub.knownStateChanges, Top.pc, Top.stateChange)
  /\ ~unknown(Top.stateChange)
  /\ C13_SubAfter.unknownStateChanges = C13_Sub.unknownStateChanges
  /\ TopAfter.stop
C13_Manipulated ==
  /\ C13_SubAfter.unknownStateChanges =
       Put(C13_Sub.unknownStateChanges, Top.pc,
           StateChangeUnknown("StackManipulation"))
  /\ C13_SubAfter.knownStateChanges = C13_Sub.knownStateChanges

\* C13 (as stated): RTS pops 2 entries and RTL pops 3; the return is a
\* standard return (the current stateChange is recorded as a known state
\* change at the return's pc and the walker stops) iff every popped entry has
\* a producer that is a JSR (for RTS) or a JSL (for RTL); otherwise an
\* unknown state change with reason StackManipulation is recorded at the
\* return's pc.
C13_ReturnManipulation ==
  [][C13_Returning =>
       /\ Len(cpus') = Len(cpus)
       /\ TopAfter.stack.pointer = (Top.stack.pointer + C13_Size) % 65536
       /\ IF C13_Consistent THEN C13_Standard ELSE C13_Manipulated
    ]_vars

\* C13 (amended): RTS pops 2 entries and RTL pops 3; when every popped entry
\* has a producer that is a JSR (for RTS) or a JSL (for RTL) the return is a
\* standard return; otherwise, when no assertion exists at the return's pc
\* in the current subroutine, an unknown state change with reason
\* StackManipulation is recorded at the return's pc, no known one, and the
\* walker stops; and when an assertion exists there, no unknown state change
\* is recorded.
C13_ReturnManipulationUnlessAsserted ==
  [][C13_Returning =>
       /\ Len(cpus') = Len(cpus)
       /\ TopAfter.stack.pointer = (Top.stack.pointer + C13_Size) % 65536
       /\ C13_Consistent => C13_Standard
       /\ (~C13_Consistent
             /\ <<Top.pc, Top.subroutinePC>> \notin DOMAIN assertions) =>
            C13_Manipulated /\ TopAfter.stop
       /\ (~C13_Consistent
             /\ <<Top.pc, Top.subroutinePC>> \in DOMAIN assertions) =>
            C13_SubAfter.unknownStateChanges = C13_Sub.unknownStateChanges
    ]_vars

\* C13 witness: in the stack_manipulation ROM, with an Instruction-typed
\* assertion at the rts of $8008, the walker has executed that rts over the
\* two entries the pha pushed: it goes on at $800E and the subroutine holds no
\* unknown state change.
C13_Witness ==
  /\ rom = StackManipulationROM
  /\ runState = "walking"
  /\ <<\H800D, \H8008>> \in DOMAIN assertions
  /\ assertions[<<\H800D, \H8008>>].type = "Instruction"
  /\ executed /= <<>>
  /\ executed[Len(executed)][1] = \H800D
  /\ Top.pc = \H800E
  /\ ~Top.stop
  /\ DOMAIN subroutines[\H8008].unknownStateChanges = {}

\* The top walker executes in this step an indirect jump or call (one
\* without an absolute argument), and the jump table of that site is defined.
IndirectSite ==
  /\ Executing
  /\ type(Fetched) \in {"Jump", "Call"}
  /\ ~HasValue(absoluteArgument(Fetched))
TableDefined ==
  Top.pc \in DOMAIN jumpTables /\ jumpTables[Top.pc].status /= "Unknown"

\* C14: when the walker executes an indirect jump or call whose pc has no
\* jump table or one with status Unknown, and no assertion exists at that
\* site, the current subroutine gets an unknown state change with reason
\* IndirectJump at that pc, the walker stops, no copy is started and no
\* reference added (no target is explored), and the jump tables are as
\* before but for the entry {Unknown, no targets} under that pc.
C14_UnknownJumpTable ==
  [][(/\ IndirectSite
      /\ ~TableDefined
      /\ <<Top.pc, Top.subroutinePC>> \notin DOMAIN assertions) =>
       /\ C13_SubAfter.unknownStateChanges =
            Put(C13_Sub.unknownStateChanges, Top.pc,
                StateChangeUnknown("IndirectJump"))
       /\ C13_SubAfter.knownStateChanges = C13_Sub.knownStateChanges
       /\ Len(cpus') = Len(cpus)
       /\ TopAfter.stop
       /\ TopAfter.wait.kind = "none"
       /\ references' = references
       /\ DOMAIN subroutines' = DOMAIN subroutines
       /\ DOMAIN jumpTables' = DOMAIN jumpTables \cup {Top.pc}
       /\ Top.pc \in DOMAIN jumpTables'
       /\ jumpTables'[Top.pc].status = "Unknown"
       /\ DOMAIN jumpTables'[Top.pc].targets = {}
       /\ \A k \in DOMAIN jumpTables \ {Top.pc} : jumpTables'[k] = jumpTables[k]
    ]_vars

\* C14 witness: in the unknown_jump ROM the walker of $800B has executed
\* jmp ($9000) with no jump table: it has stopped, $800B holds IndirectJump
\* and the placeholder is in the jump tables.
C14_Witness ==
  /\ rom = UnknownJumpROM
  /\ runState = "walking"
  /\ runs = 1
  /\ executed /= <<>>
  /\ executed[Len(executed)][1] = \H800B
  /\ Top.stop
  /\ isUnknownBecauseOf(subroutines[\H800B], "IndirectJump")
  /\ jumpTables = (\H800B :> UnknownJumpTable)

\* This step starts the copy of a walker for a target of a call: the copy,
\* the walker it is a copy of before and after, and the calling instruction.
CallSpawning ==
  /\ runState = "walking"
  /\ cpus /= <<>>
  /\ \/ Len(cpus') = Len(cpus) + 1
     \/ Len(cpus') = Len(cpus) /\ Len(cpus) >= 2 /\ Top.stop
  /\ cpus'[Len(cpus') - 1].wait.kind = "call"
Callee == cpus'[Len(cpus')]
Spawner == cpus[Len(cpus') - 1]
SpawnerAfter == cpus'[Len(cpus') - 1]
Calling == SpawnerAfter.wait.instruction

\* The targets stored in the jump table of pc.
TableTargets(pc) ==
  {jumpTables[pc].targets[k] : k \in DOMAIN jumpTables[pc].targets}

\* The return address of the call at pc as `n` stack cells under `pointer`,
\* high byte first, tagged by the instruction `id`.
C15_ReturnAddress(memory, pointer, n, pc, id) ==
  \A k \in 0..(n - 1) :
    LET a == (pointer + 65536 - k) % 65536
    IN /\ a \in DOMAIN memory
       /\ memory[a] =
            StackEntry(Some(id), <<"u8", (pc \div (256 ^ (n - 1 - k))) % 256>>)

\* C15: a call whose jump table is defined (an indirect call after
\* defineJumpTable and a re-run) has as its targets the targets stored in the
\* table; the copy of the walker started for a target of a call stands at the
\* target, in the subroutine of the target, with the caller's state, an
\* empty stateChange, and the caller's stack with the return address pushed
\* (2 cells for JSR, 3 for JSL, tagged by the calling instruction), the
\* target being then a subroutine and the reference (call's pc -> target,
\* caller's subroutine) present; and when the deltas of the callees are
\* propagated to the caller, a copy has run for every target: each target is
\* a subroutine, has its reference, and has an instruction decoded at its
\* entry (unless the entry is in RAM).
C15_CallWalksEveryTarget ==
  [][/\ (IndirectSite /\ type(Fetched) = "Call" /\ TableDefined) =>
          /\ cpus'[Len(cpus)].wait.kind = "call"
          /\ cpus'[Len(cpus)].wait.targets = TableTargets(Top.pc)
          /\ cpus'[Len(cpus)].wait.instruction = Fetched
          /\ TableTargets(Top.pc) /= {} => Len(cpus') = Len(cpus) + 1
     /\ CallSpawning =>
          LET n == IF operation(Calling) = "JSR" THEN 2 ELSE 3
              t == Callee.pc
          IN /\ operation(Calling) \in {"JSR", "JSL"}
             /\ t \in SpawnerAfter.wait.targets
             /\ t \notin SpawnerAfter.wait.remaining
             /\ Callee.subroutinePC = t
             /\ Callee.state = Spawner.state
             /\ Callee.stateChange = EmptyStateChange
             /\ ~Callee.stop
             /\ Callee.stack.pointer =
                  (Spawner.stack.pointer + 65536 - n) % 65536
             /\ C15_ReturnAddress(Callee.stack.memory, Spawner.stack.pointer,
                                  n, Calling.pc, Identity(Calling))
             /\ C12_CellsKept(Spawner.stack, Callee.stack, Identity(Calling))
             /\ t \in DOMAIN subroutines'
             /\ <<Calling.pc, t, Spawner.subroutinePC>> \in references'
     /\ CallReturning =>
          \A t \in CallTargets :
            /\ t \in DOMAIN subroutines
            /\ <<CallSite, t, Caller.subroutinePC>> \in references
            /\ \/ isRAM(t)
               \/ \E id \in DOMAIN instructions : id[1] = t /\ id[2] = t
    ]_vars

\* C15 witness: in the jump_tables ROM, with the jump table of the
\* jsr (table,x) at $8000 defined over [0, 2], the copies for $8100 and $8200
\* have run and the jsr is about to propagate their deltas.
C15_Witness ==
  /\ rom = JumpTablesROM
  /\ CallReturning
  /\ CallSite = \H8000
  /\ jumpTables[\H8000].status /= "Unknown"
  /\ CallTargets = {\H8100, \H8200}
  /\ {\H8100, \H8200} \subseteq DOMAIN subroutines

\* This step starts the copy of a walker for a target of a jump.
JumpSpawning ==
  /\ runState = "walking"
  /\ cpus /= <<>>
  /\ \/ Len(cpus') = Len(cpus) + 1
     \/ Len(cpus') = Len(cpus) /\ Len(cpus) >= 2 /\ Top.stop
  /\ cpus'[Len(cpus') - 1].wait.kind = "jump"

\* The run that ends in this step used the jump table defined over {0, 2}
\* for the instruction at pc, and executed that instruction.
C16_RunOverTable(pc) ==
  /\ runState = "walking"
  /\ runState' = "done"
  /\ pc \in DOMAIN jumpTables
  /\ jumpTables[pc].status /= "Unknown"
  /\ DOMAIN jumpTables[pc].targets = {0, 2}
  /\ \E k \in 1..Len(executed) : executed[k][1] = pc

\* C16 (as stated): for the indirect jmp ($9000) at $8000 whose jump table
\* is defined with defineJumpTable($8000, {0, 2}) over the ROM table
\* $9000: dw $8100, $8200, the re-run ends with $8100 and $8200 in the
\* subroutine map.
C16_JumpTargetsAreSubroutines ==
  [][(rom = IndirectJumpROM /\ C16_RunOverTable(\H8000)) =>
       {\H8100, \H8200} \subseteq DOMAIN subroutines'
    ]_vars

\* C16 (amended): a jump whose jump table is defined has as its targets the
\* targets stored in the table; the copy started for a target of a jump
\* stands at the target in the subroutine of the jump, with the walker's
\* state, stateChange and stack, the reference (jump's pc -> target, jump's
\* subroutine) is added and the subroutine map is left as it is.  So the
\* re-run over the table {0, 2} of jmp ($9000) walks $8100 and $8200 as
\* instructions of the jumping subroutine $8000, with $8100 and $8200 in the
\* subroutine map only as entry points; the re-run over the table {0, 2} of
\* the indirect call jsr (table,x) of the jump_tables ROM does end with
\* $8100 and $8200 in the subroutine map.
C16_JumpTargetsStayInSubroutine ==
  [][/\ (IndirectSite /\ type(Fetched) = "Jump" /\ TableDefined) =>
          /\ cpus'[Len(cpus)].wait.kind = "jump"
          /\ cpus'[Len(cpus)].wait.targets = TableTargets(Top.pc)
     /\ JumpSpawning =>
          LET i == SpawnerAfter.wait.instruction
          IN /\ Callee.pc \in SpawnerAfter.wait.targets
             /\ Callee.pc \notin SpawnerAfter.wait.remaining
             /\ Callee.subroutinePC = Spawner.subroutinePC
             /\ Callee.state = Spawner.state
             /\ Callee.stack = Spawner.stack
             /\ Len(cpus') = Len(cpus) => Callee.stateChange = Spawner.stateChange
             /\ DOMAIN subroutines' = DOMAIN subroutines
             /\ <<i.pc, Callee.pc, Spawner.subroutinePC>> \in references'
     /\ (rom = IndirectJumpROM /\ C16_RunOverTable(\H8000)) =>
          /\ TableTargets(\H8000) = {\H8100, \H8200}
          /\ \A t \in {\H8100, \H8200} :
               /\ <<\H8000, t, \H8000>> \in references'
               /\ \E id \in DOMAIN instructions' : id[1] = t /\ id[2] = \H8000
               /\ t \in DOMAIN subroutines' => t \in DOMAIN entryPoints
     /\ (rom = JumpTablesROM /\ C16_RunOverTable(\H8000)) =>
          {\H8100, \H8200} \subseteq DOMAIN subroutines'
    ]_vars

\* C16 witness: the re-run of the indirect_jump ROM with the jump table of
\* jmp ($9000) defined over {0, 2} is done: $8100 and $8200 were walked as
\* instructions of the subroutine $8000 and are not subroutines.
C16_Witness ==
  /\ rom = IndirectJumpROM
  /\ runState = "done"
  /\ \H8000 \in DOMAIN jumpTables
  /\ jumpTables[\H8000].status /= "Unknown"
  /\ TableTargets(\H8000) = {\H8100, \H8200}
  /\ \A t \in {\H8100, \H8200} :
       \E id \in DOMAIN instructions : id[1] = t /\ id[2] = \H8000
  /\ DOMAIN subroutines \cap {\H8100, \H8200} = {}

\* The top walker raises in this step an unknown state change at its pc:
\* CPU::step finds the pc in RAM, or the instruction it executes is an
\* interrupt, an indirect jump or call without a defined jump table, a return
\* over a manipulated stack, or a PLP of an entry no PHP produced.
RaisedInStep ==
  /\ runState = "walking"
  /\ cpus /= <<>>
  /\ ~Top.stop
  /\ \/ isRAM(Top.pc)
     \/ /\ Executing
        /\ \/ type(Fetched) = "Interrupt"
           \/ IndirectSite /\ ~TableDefined
           \/ C13_Returning /\ ~C13_Consistent
           \/ operation(Fetched) = "PLP" /\ ~ProducedBy(NextPopped, "PHP")
AssertionAt(pc, subroutinePC) ==
  IF <<pc, subroutinePC>> \in DOMAIN assertions
  THEN assertions[<<pc, subroutinePC>>].type ELSE "None"

\* A state after the delta `sc` is applied to it.
C17_Applied(state, sc) ==
  StateOf(IF HasValue(sc.m) THEN Value(sc.m) ELSE StateM(state),
          IF HasValue(sc.x) THEN Value(sc.x) ELSE StateX(state))

\* C17: when an unknown state change is raised at a site (pc, subroutinePC)
\* that carries an Instruction-typed assertion, no state change is recorded
\* at that site, the asserted delta is applied to the walker's state and
\* stateChange, and the walker, not stopped, continues with the next
\* instruction: its pc has moved past the site.
C17_InstructionAssertionContinues ==
  [][(RaisedInStep /\ AssertionAt(Top.pc, Top.subroutinePC) = "Instruction") =>
       LET sc == assertions[<<Top.pc, Top.subroutinePC>>].stateChange
       IN /\ Len(cpus') = Len(cpus)
          /\ C13_SubAfter.knownStateChanges = C13_Sub.knownStateChanges
          /\ C13_SubAfter.unknownStateChanges = C13_Sub.unknownStateChanges
          /\ StateM(TopAfter.state) = StateM(C17_Applied(Top.state, sc))
          /\ StateX(TopAfter.state) = StateX(C17_Applied(Top.state, sc))
          /\ HasValue(sc.m) => TopAfter.stateChange.m = sc.m
          /\ HasValue(sc.x) => TopAfter.stateChange.x = sc.x
          /\ ~TopAfter.stop
          /\ TopAfter.pc /= Top.pc
    ]_vars

\* The call that is returning raises an unknown state change at the call
\* site: a target holds an unknown state change, or the targets' known
\* deltas do not simplify to exactly one.
RaisedInPropagation ==
  /\ CallReturning
  /\ \/ ~C2_NoUnknownTarget
     \/ Cardinality(C2_Deltas) /= 1

\* The subroutine t holds at pc the delta a Subroutine-typed assertion of the
\* site (pc, t) asserts.
C18_AssertedRecord(t, pc) ==
  /\ AssertionAt(pc, t) = "Subroutine"
  /\ pc \in DOMAIN subroutines[t].knownStateChanges
  /\ subroutines[t].knownStateChanges[pc] = assertions[<<pc, t>>].stateChange
C18_AssertedTarget ==
  \E t \in CallTargets :
    \E pc \in DOMAIN subroutines[t].knownStateChanges : C18_AssertedRecord(t, pc)

\* The caller has taken the delta sc of the returning call and goes on,
\* nothing being recorded in its subroutine.
C18_Propagated(sc) ==
  /\ StateM(CallerAfter.state) =
       (IF HasValue(sc.m) THEN Value(sc.m) ELSE StateM(Caller.state))
  /\ StateX(CallerAfter.state) =
       (IF HasValue(sc.x) THEN Value(sc.x) ELSE StateX(Caller.state))
  /\ ~CallerAfter.stop
  /\ subroutines'[Caller.subroutinePC].unknownStateChanges =
       subroutines[Caller.subroutinePC].unknownStateChanges

\* The part of C18 on the site of the assertion: when an unknown state change
\* is raised at a site that carries a Subroutine-typed assertion (in a step of
\* the walker, or when a call propagates), the asserted delta, not the
\* unknown reason, is recorded at that pc as a known state change of the
\* enclosing subroutine, and the walker stops.
C18_AtSite ==
  /\ (RaisedInStep /\ AssertionAt(Top.pc, Top.subroutinePC) = "Subroutine") =>
       /\ Len(cpus') = Len(cpus)
       /\ C13_SubAfter.knownStateChanges =
            Put(C13_Sub.knownStateChanges, Top.pc,
                assertions[<<Top.pc, Top.subroutinePC>>].stateChange)
       /\ C13_SubAfter.unknownStateChanges = C13_Sub.unknownStateChanges
       /\ TopAfter.stop
  /\ (RaisedInPropagation
        /\ AssertionAt(CallSite, Caller.subroutinePC) = "Subroutine") =>
       /\ subroutines'[Caller.subroutinePC].knownStateChanges =
            Put(subroutines[Caller.subroutinePC].knownStateChanges, CallSite,
                assertions[<<CallSite, Caller.subroutinePC>>].stateChange)
       /\ subroutines'[Caller.subroutinePC].unknownStateChanges =
            subroutines[Caller.subroutinePC].unknownStateChanges
       /\ CallerAfter.stop

\* C18 (as stated): when an unknown state change is raised at a site that
\* carries a Subroutine-typed assertion, the asserted delta is recorded at
\* that pc as a state change of the enclosing subroutine and the walker
\* stops; a caller of that subroutine then propagates the asserted delta
\* instead of raising Unknown.
C18_SubroutineAssertionPropagates ==
  [][/\ C18_AtSite
     /\ (CallReturning /\ C18_AssertedTarget) =>
          \E t \in CallTargets :
            \E pc \in DOMAIN subroutines[t].knownStateChanges :
              /\ C18_AssertedRecord(t, pc)
              /\ C18_Propagated(subroutines[t].knownStateChanges[pc])
    ]_vars

\* C18 (amended): as stated on the site of the assertion; a caller of that
\* subroutine then propagates the asserted delta when no target of the call
\* holds an unknown state change (at another site) and the known deltas of
\* the targets, the asserted one included, simplify against the caller's
\* state to exactly one delta.
C18_SubroutineAssertionPropagatesIfAlone ==
  [][/\ C18_AtSite
     /\ (/\ CallReturning
         /\ C18_AssertedTarget
         /\ C2_NoUnknownTarget
         /\ Cardinality(C2_Deltas) = 1) =>
          \E t \in CallTargets :
            \E pc \in DOMAIN subroutines[t].knownStateChanges :
              /\ C18_AssertedRecord(t, pc)
              /\ C18_Propagated(subroutines[t].knownStateChanges[pc])
    ]_vars

\* C18 witness: in the unknown_jump ROM, with the Subroutine-typed assertion
\* (m = 0, x = 0) at the jmp ($9000) of $800B, the delta was recorded at
\* $800B and the jsr at $8002 has propagated it: reset goes on at $8005 with
\* m = 0 and x = 0.
C18_Witness ==
  /\ rom = UnknownJumpROM
  /\ runState = "walking"
  /\ AssertionAt(\H800B, \H800B) = "Subroutine"
  /\ assertions[<<\H800B, \H800B>>].stateChange =
       StateChange(Some(FALSE), Some(FALSE))
  /\ \H800B \in DOMAIN subroutines
  /\ subroutines[\H800B].knownStateChanges =
       (\H800B :> StateChange(Some(FALSE), Some(FALSE)))
  /\ Len(cpus) = 1
  /\ Top.pc = \H8005
  /\ Top.state = StateOf(FALSE, FALSE)
  /\ ~Top.stop

\* C19: whenever the walker executes an instruction at a site (pc,
\* subroutinePC) that carries an Instruction-typed assertion, the walker's
\* state after executing the instruction has the asserted m/x values (those
\* the asserted delta sets), and at a site that carries a Subroutine-typed
\* assertion the walker has stopped, whether or not the site raised an
\* unknown state change.  (Stated for the instructions whose execution ends
\* within the step, without a copy of the walker left to run.)
C19_AssertionsAlwaysRespected ==
  [][(Executing /\ Len(cpus') = Len(cpus) /\ TopAfter.wait.kind = "none") =>
       /\ AssertionAt(Top.pc, Top.subroutinePC) = "Instruction" =>
            LET sc == assertions[<<Top.pc, Top.subroutinePC>>].stateChange
            IN /\ HasValue(sc.m) => StateM(TopAfter.state) = Value(sc.m)
               /\ HasValue(sc.x) => StateX(TopAfter.state) = Value(sc.x)
       /\ AssertionAt(Top.pc, Top.subroutinePC) = "Subroutine" =>
            TopAfter.stop
    ]_vars

\* A step of Analysis::run: its clear(), a step of its walk, or its end.
InRun == runState = "walking" \/ runState' = "walking"

\* C20: Analysis::run clears and recomputes only derived data: its first
\* step empties instructions, subroutines and references, and no step of a
\* run, to its end (normal or not), changes the entry points, the
\* assertions, the comments, the custom labels, or the status and the
\* targets of a defined (Partial or Complete) jump table; so after any run
\* they are what they were before it.
C20_RunKeepsUserData ==
  [][InRun =>
       /\ runState /= "walking" =>
            instructions' = EmptyMap /\ subroutines' = EmptyMap
              /\ references' = {}
       /\ entryPoints' = entryPoints
       /\ assertions' = assertions
       /\ comments' = comments
       /\ customLabels' = customLabels
       /\ \A pc \in DOMAIN jumpTables :
            jumpTables[pc].status \in {"Partial", "Complete"} =>
              /\ pc \in DOMAIN jumpTables'
              /\ jumpTables'[pc] = jumpTables[pc]
    ]_vars

\* C20 witness: the jump_tables ROM after its second run, made with a comment
\* on the jsr at $8000 and its jump table defined: both are still there.
C20_Witness ==
  /\ rom = JumpTablesROM
  /\ runState = "done"
  /\ runs = 2
  /\ comments = (\H8000 :> "note")
  /\ jumpTables[\H8000].status = "Complete"
  /\ TableTargets(\H8000) = {\H8100, \H8200}
  /\ {\H8100, \H8200} \subseteq DOMAIN subroutines

\* A user edit: a step made between runs that is not the start of a run.
UserEdit == runState \in {"idle", "done"} /\ runState' /= "walking"

\* The user-data collections a step changes.
ChangedUserData ==
  {c \in {"entryPoints", "assertions", "jumpTables", "comments",
          "customLabels"} :
     \/ c = "entryPoints" /\ entryPoints' /= entryPoints
     \/ c = "assertions" /\ assertions' /= assertions
     \/ c = "jumpTables" /\ jumpTables' /= jumpTables
     \/ c = "comments" /\ comments' /= comments
     \/ c = "customLabels" /\ customLabels' /= customLabels}

\* C21: addEntryPoint, addAssertion, removeAssertion, defineJumpTable and
\* undefineJumpTable change only their own user-data collection: a step made
\* between runs changes at most one of the user-data collections, and leaves
\* the instruction index, the subroutine map (with the state changes it
\* records) and the reference graph as they are; they change only in the
\* steps of a run.
C21_EditsKeepDerivedData ==
  [][UserEdit =>
       /\ Cardinality(ChangedUserData) <= 1
       /\ instructions' = instructions
       /\ subroutines' = subroutines
       /\ references' = references
    ]_vars

\* C21 witness: after the run of the unknown_jump ROM, an assertion was
\* added at the jmp ($9000) of the subroutine $800B, whose unknown state
\* change is still recorded, the instructions and the references being those
\* of the run.
C21_Witness ==
  /\ rom = UnknownJumpROM
  /\ runState = "done"
  /\ runs = 1
  /\ edits = 1
  /\ <<\H800B, \H800B>> \in DOMAIN assertions
  /\ \H800B \in DOMAIN subroutines
  /\ DOMAIN subroutines[\H800B].unknownStateChanges = {\H800B}
  /\ <<\H8002, \H800B, \H8000>> \in references
  /\ \E id \in DOMAIN instructions : id[1] = \H800B

\* C22: after a run, for every entry point e of the entry-point set (reset,
\* NMI and user-added), the subroutine map holds at e.pc a subroutine whose
\* label is e.label and which is marked as an entry point, also when the walk
\* of another entry point has called e.pc before e is walked.
C22_EntryPointsAreSubroutines ==
  [][(runState = "walking" /\ runState' = "done") =>
       \A pc \in DOMAIN entryPoints' :
         /\ pc \in DOMAIN subroutines'
         /\ subroutines'[pc].label = entryPoints'[pc].label
         /\ subroutines'[pc].isEntryPoint
    ]_vars

\* C23: addEntryPoint with a pc already in the entry-point set is a no-op:
\* the set, hashed by pc, keeps one entry for that pc, with the label and
\* the initial state of the first insertion, whatever the second call
\* passes.  No step replaces or removes the entry of a pc, and an entry is
\* filed under its own pc.
C23_AddEntryPointTwice ==
  [][/\ \A pc \in DOMAIN entryPoints :
          pc \in DOMAIN entryPoints' /\ entryPoints'[pc] = entryPoints[pc]
     /\ \A pc \in DOMAIN entryPoints' : entryPoints'[pc].pc = pc
    ]_vars

\* C23 witness: after the run of the state_change ROM the user has added an
\* entry point (label "entry") at a pc of the set, the one edit made: the
\* entry points are still reset and nmi with their labels.
C23_Witness ==
  /\ rom = StateChangeROM
  /\ runState = "done"
  /\ runs = 1
  /\ edits = 1
  /\ assertions = EmptyMap
  /\ comments = EmptyMap
  /\ customLabels = EmptyMap
  /\ jumpTables = EmptyMap
  /\ entryPoints = InitialEntryPoints(rom)
  /\ entryPoints[\H8000].label = "reset"

(***************************************************************************)
(* The Stack on its own: pushes on a stack, then one pop of all of them.   *)
(***************************************************************************)
\* The Analysis the units are used beside: none is run.
analysis ==
  <<rom, entryPoints, assertions, comments, customLabels, jumpTables,
    instructions, subroutines, references, cpus, pending, runState, runs,
    edits, executed, recorded>>
NoAnalysis ==
  /\ rom = EmptyROM
  /\ entryPoints = InitialEntryPoints(rom)
  /\ assertions = EmptyMap
  /\ comments = EmptyMap
  /\ customLabels = EmptyMap
  /\ jumpTables = EmptyMap
  /\ instructions = EmptyMap
  /\ subroutines = EmptyMap
  /\ references = {}
  /\ cpus = <<>>
  /\ pending = {}
  /\ runState = "idle"
  /\ runs = 0
  /\ edits = 0
  /\ executed = <<>>
  /\ recorded = {}

\* Bound of the pushes: the bytes pushed before the pop.
MaxBytes == 4

\* The instructions that push (a jsr and a pha), and an entry left on the
\* stack by earlier pushes.
StackJsr == Some(<<\H8000, \H8000, DefaultState>>)
StackPha == Some(<<\H8003, \H8000, DefaultState>>)
StaleEntry == StackEntry(Nullopt, <<"u8", \HEE>>)

\* The stacks the pushes start from: a fresh Stack, stacks whose pointer is
\* about to wrap, and a stack that holds earlier entries at the cells used.
StartStacks ==
  {[pointer |-> p, memory |-> m] :
     p \in {InitialPointer, 1, 0},
     m \in {EmptyMap,
            [c \in {65534, 65535, 0, 1, 2, 255, 256, 257} |-> StaleEntry]}}

\* What is in flight: the stack, its pointer before the pushes, the entries
\* pushed (in push order) and the result of the pop.
StackCase(stack, mark, pushed, popped) ==
  [stack |-> stack, mark |-> mark, pushed |-> pushed, popped |-> popped]

StackInit ==
  /\ NoAnalysis
  /\ \E stack \in StartStacks :
       stackCase = StackCase(stack, stack.pointer, <<>>, Nullopt)
  /\ romCase = Nullopt
  /\ undoCase = Nullopt
  /\ changeCase = Nullopt

Pushing(n) ==
  /\ ~HasValue(stackCase.popped)
  /\ Len(stackCase.pushed) + n <= MaxBytes

\* The byte k (0 the lowest) of a value.
ByteOf(value, k) == (value \div (256 ^ k)) % 256

\* stack.pushValue(size, data, instruction).
StackPushValue ==
  /\ \E n \in 1..3, data \in {Nullopt, Some(\H123456)},
        instruction \in {StackJsr, StackPha} :
       /\ Pushing(n)
       /\ stackCase' =
            [stackCase EXCEPT
               !.stack = pushValue(@, n, data, instruction),
               !.pushed =
                  @ \o [k \in 1..n |->
                          StackEntry(instruction,
                                     IF HasValue(data)
                                     THEN <<"u8", ByteOf(Value(data), n - k)>>
                                     ELSE Nullopt)]]
  /\ UNCHANGED <<analysis, romCase, undoCase, changeCase>>

\* stack.pushOne(data, instruction).
StackPushOne ==
  /\ \E data \in {Nullopt, Some(\H56)}, instruction \in {Nullopt, StackPha} :
       /\ Pushing(1)
       /\ stackCase' =
            [stackCase EXCEPT
               !.stack = pushOne(@, data, instruction),
               !.pushed =
                  Append(@, StackEntry(instruction,
                                       IF HasValue(data)
                                       THEN <<"u8", Value(data)>>
                                       ELSE Nullopt))]
  /\ UNCHANGED <<analysis, romCase, undoCase, changeCase>>

\* stack.pushState(state, stateChange, instruction).
StackPushState ==
  /\ \E state \in {DefaultState, StateOf(FALSE, TRUE)} :
       /\ Pushing(1)
       /\ stackCase' =
            [stackCase EXCEPT
               !.stack = pushState(@, state, StateChange(Some(TRUE), Nullopt),
                                   StackPha),
               !.pushed =
                  Append(@, StackEntry(StackPha,
                                       <<"state", state,
                                         StateChange(Some(TRUE), Nullopt)>>))]
  /\ UNCHANGED <<analysis, romCase, undoCase, changeCase>>

\* stack.pop(n), n the number of bytes pushed.
StackPop ==
  /\ ~HasValue(stackCase.popped)
  /\ stackCase.pushed /= <<>>
  /\ LET result == pop(stackCase.stack, Len(stackCase.pushed))
     IN stackCase' = [stackCase EXCEPT !.stack = result[2],
                                       !.popped = Some(result[1])]
  /\ UNCHANGED <<analysis, romCase, undoCase, changeCase>>

StackNext == StackPushValue \/ StackPushOne \/ StackPushState \/ StackPop

StackSpec == StackInit /\ [][StackNext]_vars

Reverse(seq) == [k \in 1..Len(seq) |-> seq[Len(seq) + 1 - k]]

\* C24: for any stack and any sequence of pushes totalling n bytes, a
\* following pop(n) returns those n entries in reverse push order (the byte
\* pushed last first; of a value of several bytes the low byte first), each
\* with the instruction and the byte it was pushed with, and the stack
\* pointer is back at its value before the pushes.
C24_PopReversesPushes ==
  (stackCase /= Nullopt /\ HasValue(stackCase.popped)) =>
    /\ Value(stackCase.popped) = Reverse(stackCase.pushed)
    /\ stackCase.stack.pointer = stackCase.mark

\* C24 witness: on a stack whose pointer wraps, jsr's pushValue(2, $3456)
\* then pha's pushOne($56), then pop(3): $56 of the pha, then $56 and $34 of
\* the jsr.
C24_Witness ==
  /\ stackCase /= Nullopt
  /\ stackCase.mark = 1
  /\ stackCase.popped =
       Some(<<StackEntry(StackPha, <<"u8", \H56>>),
              StackEntry(StackJsr, <<"u8", \H56>>),
              StackEntry(StackJsr, <<"u8", \H34>>)>>)
  /\ stackCase.stack.pointer = 1

\* The sites a label is asked for: the instructions of the subroutines, each
\* with its subroutine.
LabelSites ==
  UNION {{<<pc, s>> : pc \in DOMAIN subroutines[s].instructions} :
           s \in DOMAIN subroutines}

\* C25: getLabel(pc, sub) returns the custom label registered by renameLabel
\* at (pc, sub) if there is one; otherwise the label of the subroutine whose
\* entry is pc if there is one; otherwise the generated local label (in its
\* local form, with the leading dot) of the instruction at pc in sub if it
\* has one; otherwise none.
C25_LabelPrecedence ==
  runState = "done" =>
    \A site \in LabelSites :
      LET pc == site[1]
          local == instructions[subroutines[site[2]].instructions[pc]].label
      IN getLabel(pc, Some(site[2])) =
           Returned(IF site \in DOMAIN customLabels
                    THEN Some(customLabels[site])
                    ELSE IF pc \in DOMAIN subroutines
                    THEN Some(subroutines[pc].label)
                    ELSE IF HasValue(local) THEN Some("." \o Value(local))
                    ELSE Nullopt)

(***************************************************************************)
(* The ROM on its own: an image file, ROM::ROM(path), then translate,      *)
(* readWord and readAddress on the ROM constructed.                        *)
(***************************************************************************)
\* Header offsets (enum Header).
HeaderTITLE_LEN == 21
HeaderTITLE == \HFFC0
HeaderMARKUP == \HFFD5

\* An image file: its size and its bytes (those that are not zero).
File(fileSize, bytes) == [size |-> fileSize, bytes |-> bytes]
ByteAt(file, offset) ==
  IF offset \in DOMAIN file.bytes THEN file.bytes[offset] ELSE 0

\* `bytes` at the file offset `offset`.
At(offset, bytes) ==
  [o \in offset..(offset + Len(bytes) - 1) |-> bytes[o - offset + 1]]

\* Title windows of 21 bytes: "TEST" padded with NULs, and the same with a
\* control character as its first or as its last byte.
TitleWindow(kind) ==
  [k \in 1..HeaderTITLE_LEN |->
     CASE kind = "head" /\ k = 1 -> 1
       [] kind = "tail" /\ k = HeaderTITLE_LEN -> 1
       [] k <= 4 -> <<\H54, \H45, \H53, \H54>>[k]
       [] OTHER -> 0]
TitleKinds == {"text", "head", "tail"}

\* The image files: 32 KiB and 64 KiB images with a title window at each
\* header offset the file holds, a markup byte at each, and code bytes.
Files ==
  {File(\H8000,
        At(0, <<\H34, \H12, \H56>>)
          @@ At(HeaderTITLE - \H8000, TitleWindow(lo))
          @@ At(HeaderMARKUP - \H8000, <<markupLo>>)) :
     lo \in TitleKinds, markupLo \in {0, \H02, \H32}}
  \cup
  {File(\H10000,
        At(0, <<\H34, \H12, \H56>>) @@ At(\H8000, <<\H78, \H9A, \HBC>>)
          @@ At(HeaderTITLE - \H8000, TitleWindow(lo))
          @@ At(HeaderMARKUP - \H8000, <<markupLo>>)
          @@ At(HeaderTITLE, TitleWindow(hi))
          @@ At(HeaderMARKUP, <<markupHi>>)) :
     lo \in TitleKinds, hi \in TitleKinds, markupLo \in {0, \H02, \H32},
     markupHi \in {0, \H04}}

\* isprint, in the C locale.
isprint(c) == \H20 <= c /\ c <= \H7E

\* ROM::typeScore: the loop from byte i of the title on.
RECURSIVE typeScoreFrom(_, _, _, _)
typeScoreFrom(file, titleAddress, i, score) ==
  IF i = HeaderTITLE_LEN THEN score
  ELSE LET c == ByteAt(file, titleAddress + i)
       IN IF c = 0 THEN typeScoreFrom(file, titleAddress, i + 1, score + 1)
          ELSE IF isprint(c)
          THEN typeScoreFrom(file, titleAddress, i + 1, score + 2)
          ELSE 0

\* ROM::typeScore.
typeScore(file, romType) ==
  typeScoreFrom(file,
                IF romType = "LoROM" THEN HeaderTITLE - \H8000
                ELSE HeaderTITLE,
                0, 0)

\* ROM::discoverType.
discoverType(file) ==
  IF file.size <= \H8000 THEN "LoROM"
  ELSE IF typeScore(file, "HiROM") > typeScore(file, "LoROM") THEN "HiROM"
  ELSE "LoROM"

\* ROM::discoverSubtype.
discoverSubtype(r) ==
  LET markup == readByte(r, HeaderMARKUP)
  IN CASE r.romType = "LoROM" /\ markup = \H32 -> "SDD1"
       [] r.romType = "LoROM" /\ markup /= \H32 /\ BitAnd(markup, 2) /= 0 ->
            "ExLoROM"
       [] r.romType = "HiROM" /\ BitAnd(markup, 4) /= 0 -> "ExHiROM"
       [] OTHER -> r.romType

\* ROM::ROM(path), on the file read.
ROM(file) ==
  LET r == [romType |-> discoverType(file), data |-> file.bytes]
  IN [r EXCEPT !.romType = discoverSubtype(r)]

\* The result of a read that faults, and the bytes a read past the end of
\* the file may find there.
Fault == -1
Beyond == {0, \HFF}

\* The addresses read.
Addresses ==
  {\H008000, \H00FFC0, \H00FFC2, \H018000, \H40FFC0, \H7FFFFF, \H808000,
   \HC00000, \HC08000, \HC0FFC0, \HFFFFFF}

RomCase(file, status, r, op, address, bytes, result) ==
  [file |-> file, status |-> status, rom |-> r, op |-> op,
   address |-> address, bytes |-> bytes, result |-> result]

RomInit ==
  /\ NoAnalysis
  /\ stackCase = Nullopt
  /\ undoCase = Nullopt
  /\ changeCase = Nullopt
  /\ \E file \in Files :
       romCase = RomCase(file, "file", Nullopt, "none", 0, <<>>, 0)

\* ROM rom(path).
RomConstruct ==
  /\ romCase.status = "file"
  /\ romCase' = [romCase EXCEPT !.status = "constructed",
                                !.rom = Some(ROM(romCase.file))]
  /\ UNCHANGED <<analysis, stackCase, undoCase, changeCase>>

\* rom.translate(address), the one call made on the ROM.
RomTranslate ==
  /\ romCase.status = "constructed"
  /\ romCase.op = "none"
  /\ \E address \in Addresses :
       romCase' = [romCase EXCEPT
                     !.op = "translate", !.address = address, !.bytes = <<>>,
                     !.result = translate(Value(romCase.rom).romType, address)]
  /\ UNCHANGED <<analysis, stackCase, undoCase, changeCase>>

\* The file offsets of the n bytes from address on that are past the end
\* of the file: data[offset] is read out of bounds.
PastEnd(address, n) ==
  {o \in {translate(Value(romCase.rom).romType, address + k) :
            k \in 0..(n - 1)} : o >= romCase.file.size}

\* The ROM with `memory` as the bytes past the end of its data.
WithBeyond(memory) ==
  [Value(romCase.rom) EXCEPT !.data = memory @@ @]

\* A read of n bytes from address on, by readWord (n = 2) or readAddress
\* (n = 3): it faults, or finds some bytes past the end of the file.
RomRead(op, n) ==
  /\ romCase.status = "constructed"
  /\ romCase.op = "none"
  /\ \E address \in Addresses :
       \/ /\ PastEnd(address, n) /= {}
          /\ romCase' = [romCase EXCEPT
                           !.op = op, !.address = address, !.bytes = <<>>,
                           !.result = Fault]
       \/ \E memory \in [PastEnd(address, n) -> Beyond] :
            LET r == WithBeyond(memory)
            IN romCase' =
                 [romCase EXCEPT
                    !.op = op, !.address = address,
                    !.bytes = [k \in 1..n |-> readByte(r, address + k - 1)],
                    !.result = IF n = 2 THEN readWord(r, address)
                               ELSE readAddress(r, address)]
  /\ UNCHANGED <<analysis, stackCase, undoCase, changeCase>>

\* rom.readWord(address) and rom.readAddress(address).
RomReadWord == RomRead("readWord", 2)
RomReadAddress == RomRead("readAddress", 3)

RomNext == RomConstruct \/ RomTranslate \/ RomReadWord \/ RomReadAddress

RomSpec == RomInit /\ [][RomNext]_vars

\* A title window holds a byte that is neither printable nor NUL.
Disqualified(file, titleAddress) ==
  \E i \in 0..(HeaderTITLE_LEN - 1) :
    LET c == ByteAt(file, titleAddress + i) IN c /= 0 /\ ~isprint(c)

\* C26: constructing a ROM whose 21-byte title window holds a disqualifying
\* (non-printable, non-NUL) byte at both the LoROM and the HiROM header
\* offset aborts the construction with an error: no ROM object is yielded.
C26_MalformedHeaderAborts ==
  (/\ romCase /= Nullopt
   /\ romCase.file.size >= HeaderTITLE + HeaderTITLE_LEN
   /\ Disqualified(romCase.file, HeaderTITLE - \H8000)
   /\ Disqualified(romCase.file, HeaderTITLE)) =>
     ~HasValue(romCase.rom)

\* The formulas of the ROM types, with the bit operations as written.
LoROMFormula(a) == BitOr(BitAnd(a, \H7F0000) \div 2, BitAnd(a, \H7FFF))
HiROMFormula(a) == BitAnd(a, \H3FFFFF)
TranslateFormula(romType, a) ==
  CASE romType = "LoROM" -> LoROMFormula(a)
    [] romType = "HiROM" -> HiROMFormula(a)
    [] romType = "ExLoROM" ->
         IF BitAnd(a, \H800000) = 0 THEN LoROMFormula(a) + \H400000
         ELSE LoROMFormula(a)
    [] romType = "ExHiROM" ->
         IF BitAnd(a, \HC00000) /= \HC00000
         THEN BitOr(HiROMFormula(a), \H400000)
         ELSE HiROMFormula(a)
    [] romType = "SDD1" ->
         IF a >= \HC00000 THEN HiROMFormula(a) ELSE LoROMFormula(a)

\* C27: for each of the five ROM types and every 24-bit address a,
\* translate(a) is defined and equals the formula of the type (LoROM:
\* ((a & 0x7F0000) >> 1) | (a & 0x7FFF); HiROM: a & 0x3FFFFF; ExLoROM: the
\* LoROM formula, plus 0x400000 when bit 0x800000 is clear; ExHiROM:
\* (a & 0x3FFFFF) | 0x400000 unless (a & 0xC00000) = 0xC00000, then
\* a & 0x3FFFFF; SDD1: the HiROM formula from 0xC00000 on, the LoROM formula
\* below); readWord(a) = readByte(a) | readByte(a+1) << 8 and
\* readAddress(a) = readWord(a) | readByte(a+2) << 16, each byte being the
\* byte of the file at the translated offset when the file holds it.
C27_TranslateAndReads ==
  (romCase /= Nullopt /\ romCase.status = "constructed") =>
    LET romType == Value(romCase.rom).romType
        a == romCase.address
        b == romCase.bytes
    IN /\ romType \in {"LoROM", "HiROM", "ExLoROM", "ExHiROM", "SDD1"}
       /\ romCase.op = "translate" =>
            /\ romCase.result \in Nat
            /\ romCase.result = TranslateFormula(romType, a)
       /\ (romCase.op \in {"readWord", "readAddress"}
             /\ romCase.result /= Fault) =>
            \A k \in 1..Len(b) :
              TranslateFormula(romType, a + k - 1) < romCase.file.size =>
                b[k] = ByteAt(romCase.file,
                              TranslateFormula(romType, a + k - 1))
       /\ (romCase.op = "readWord" /\ romCase.result /= Fault) =>
            romCase.result = BitOr(b[1], b[2] * 256)
       /\ (romCase.op = "readAddress" /\ romCase.result /= Fault) =>
            romCase.result = BitOr(BitOr(b[1], b[2] * 256), b[3] * 65536)

\* C27 witness: an ExHiROM image read at its title, readAddress($C0FFC0):
\* the bytes 'T', 'E', 'S' of the file at $FFC0 give $534554.
C27_Witness ==
  /\ romCase /= Nullopt
  /\ romCase.status = "constructed"
  /\ Value(romCase.rom).romType = "ExHiROM"
  /\ romCase.op = "readAddress"
  /\ romCase.address = \HC0FFC0
  /\ romCase.bytes = <<\H54, \H45, \H53>>
  /\ romCase.result = \H534554

\* The state in which the walk entered the subroutine the top walker is in:
\* the state of the caller whose call started that walk (the copy of
\* CPU::call takes the caller's state), or the state of the entry point when
\* no call is in progress below the walker.
C28_Entered ==
  LET callers == {k \in 1..(Len(cpus) - 1) : cpus[k].wait.kind = "call"}
  IN IF callers = {} THEN entryPoints[cpus[1].subroutinePC].state
     ELSE cpus[CHOOSE k \in callers : \A j \in callers : j <= k].state
\* The top walker executes a standard return in this step: it records its
\* stateChange as a known state change at the return's pc.
C28_Recording ==
  /\ Executing
  /\ operation(Fetched) \in {"RTS", "RTL", "RTI"}
  /\ operation(Fetched) = "RTI" \/ C13_Consistent
  /\ <<Top.subroutinePC, Top.pc, Top.stateChange>> \in recorded'
\* A flag of the recorded delta agrees with the walker's path: when set it
\* is the flag of the state at the return, when unset that flag is the one
\* the subroutine was entered with.
C28_Agrees(delta, atReturn, atEntry) ==
  IF HasValue(delta) THEN atReturn = Value(delta) ELSE atReturn = atEntry

\* C28: whenever a walker records a known state change d at a return of a
\* subroutine, d agrees with that walker's own path: for each of the flags
\* m and x, when d sets the flag the walker's state at the return has that
\* value, and when d leaves it unset the state at the return has the value
\* the flag had when the walk entered the subroutine.
C28_KnownDeltaAgreesWithPath ==
  [][C28_Recording =>
       /\ C28_Agrees(Top.stateChange.m, StateM(Top.state), StateM(C28_Entered))
       /\ C28_Agrees(Top.stateChange.x, StateX(Top.state), StateX(C28_Entered))
    ]_vars

\* The states held at the returns that the paths of the code at pc reach
\* when they start in state p: both arms of a branch are followed, SEP and
\* REP set and reset the flags of their operand, a jump with an absolute
\* target is followed, a return ends the path.  `seen` holds the <<pc, p>>
\* the path went through (a path that closes a loop reaches no new return).
\* A path that meets a call, an interrupt, an indirect jump, a push, a pop or
\* RAM puts Unfollowed in the set: those paths are not followed here.
Unfollowed == 0 - 1
RECURSIVE C29_Returns(_, _, _)
C29_Returns(pc, p, seen) ==
  IF <<pc, p>> \in seen THEN {}
  ELSE IF isRAM(pc) THEN {Unfollowed}
  ELSE
    LET i == Instruction(pc, pc, readByte(rom, pc), readAddress(rom, pc + 1), p)
        next == WrapU24(pc + size(i))
        sofar == seen \cup {<<pc, p>>}
    IN CASE type(i) = "Return" -> {p}
         [] type(i) = "SepRep" ->
              C29_Returns(next,
                          IF operation(i) = "SEP"
                          THEN StateSet(p, Value(absoluteArgument(i)))
                          ELSE StateReset(p, Value(absoluteArgument(i))),
                          sofar)
         [] type(i) = "Branch" ->
              C29_Returns(next, p, sofar)
                \cup C29_Returns(Value(absoluteArgument(i)), p, sofar)
         [] type(i) = "Jump" /\ HasValue(absoluteArgument(i)) ->
              C29_Returns(Value(absoluteArgument(i)), p, sofar)
         [] type(i) = "Other" -> C29_Returns(next, p, sofar)
         [] OTHER -> {Unfollowed}
\* The call that returns in this step has one target, no target holds an
\* unknown state change and the known deltas simplify to one: the caller
\* applies that delta.
C29_Applying ==
  /\ CallReturning
  /\ Cardinality(CallTargets) = 1
  /\ C2_NoUnknownTarget
  /\ Cardinality(C2_Deltas) = 1
C29_Reached ==
  C29_Returns(CHOOSE t \in CallTargets : TRUE, Caller.state, {})

\* C29: when a call with a single resolved target applies a known delta, the
\* (m, x) of the caller after the call is the (m, x) held at one of the
\* returns that the paths of the callee reach when they start from the
\* (m, x) the caller had before the call.
C29_CallerStateIsAReturnState ==
  [][(C29_Applying /\ Unfollowed \notin C29_Reached) =>
       \E p \in C29_Reached :
         /\ StateM(CallerAfter.state) = StateM(p)
         /\ StateX(CallerAfter.state) = StateX(p)
    ]_vars

\* The subroutines whose state changes a caller has propagated in this run:
\* the targets of the calls that were executed and that no walker is still
\* in (CPU::call has run propagateSubroutineState for them).
C30_Propagated ==
  LET calls == {k \in 1..Len(executed) :
                  /\ type(InstructionAt(instructions, executed[k])) = "Call"
                  /\ \A c \in 1..Len(cpus) :
                       ~(/\ cpus[c].wait.kind = "call"
                         /\ Identity(cpus[c].wait.instruction) = executed[k])}
      targets(k) ==
        computeJumpTargets(jumpTables,
                           InstructionAt(instructions, executed[k]))[1]
  IN UNION {Value(targets(k)) : k \in {c \in calls : HasValue(targets(c))}}

\* C30: once a caller has propagated the state changes of a subroutine S, no
\* later step of the same run adds or overwrites a state change of S: the
\* maps of known and unknown state changes of S stay as the caller read
\* them.
C30_PropagatedMapsAreFinal ==
  [][(runState = "walking" /\ runState' = "walking") =>
       \A s \in C30_Propagated \cap DOMAIN subroutines :
         /\ subroutines'[s].knownStateChanges = subroutines[s].knownStateChanges
         /\ subroutines'[s].unknownStateChanges =
              subroutines[s].unknownStateChanges
    ]_vars

\* The top walker executes a conditional branch in this step, and the walker
\* below the top is the one whose branch the stopped top walker was the
\* fall-through copy of.
C31_Branching == Executing /\ type(Fetched) = "Branch"
C31_Joining ==
  /\ runState = "walking"
  /\ Len(cpus) >= 2
  /\ Top.stop
  /\ Caller.wait.kind = "branch"
\* Two walkers hold the same state, stateChange, stateInference and stack.
C31_SamePath(a, b) ==
  /\ a.state = b.state
  /\ a.stateChange = b.stateChange
  /\ a.stateInference = b.stateInference
  /\ a.stack = b.stack
  /\ a.subroutinePC = b.subroutinePC

\* C31: at a conditional branch the walker starts a copy at the instruction
\* after the branch and records no reference yet; while that fall-through
\* copy and the walkers it starts run, the branching walker is not altered;
\* only once the copy has stopped is the reference (branch pc, target,
\* current subroutine) recorded, and the walker goes on at the target with
\* the state, stateChange, stateInference and stack it had at the branch.
C31_FallThroughFirst ==
  [][/\ C31_Branching =>
          /\ Len(cpus') = Len(cpus) + 1
          /\ references' = references
          /\ cpus'[Len(cpus)].wait.kind = "branch"
          /\ Identity(cpus'[Len(cpus)].wait.instruction) = Identity(Fetched)
          /\ C31_SamePath(cpus'[Len(cpus)], Top)
          /\ C31_SamePath(cpus'[Len(cpus')], Top)
          /\ cpus'[Len(cpus')].pc = WrapU24(Top.pc + size(Fetched))
          /\ ~cpus'[Len(cpus')].stop
     /\ \A k \in 1..(Len(cpus) - 1) :
          (/\ runState = "walking"
           /\ cpus[k].wait.kind = "branch"
           /\ ~(k = Len(cpus) - 1 /\ Top.stop)) =>
            k <= Len(cpus') /\ cpus'[k] = cpus[k]
     /\ C31_Joining =>
          LET i == Caller.wait.instruction
              target == Value(absoluteArgument(i))
          IN /\ Len(cpus') = Len(cpus) - 1
             /\ references' =
                  references \cup {<<i.pc, target, Caller.subroutinePC>>}
             /\ CallerAfter.pc = target
             /\ C31_SamePath(CallerAfter, Caller)
             /\ CallerAfter.wait = NoWait
             /\ ~CallerAfter.stop
    ]_vars

\* C31 witness: in the image whose subroutine $8006 is bcs + / rep #$20 /
\* +: rts, the fall-through copy has executed the rep #$20 and the rts with
\* m = 0 and has stopped, and the branching walker stands at the target
\* $800A with the state of the branch (m = 1), the reference recorded.
C31_Witness ==
  /\ rom = SharedReturnROM
  /\ runState = "walking"
  /\ Len(cpus) = 2
  /\ Top.pc = \H800A
  /\ Top.subroutinePC = \H8006
  /\ Top.state = DefaultState
  /\ Top.stateChange = EmptyStateChange
  /\ Top.wait = NoWait
  /\ ~Top.stop
  /\ <<\H8006, \H800A, \H8006>> \in references
  /\ \E k \in 1..Len(executed) :
       executed[k][1] = \H800A /\ executed[k][3] /= DefaultState

\* The top walker executes in this step a jump whose targets are resolved
\* (an absolute target, or a defined jump table), and the walker below the
\* stopped top walker is in the loop of CPU::jump.
C32_JumpTargets == computeJumpTargets(jumpTables, Fetched)[1]
C32_Jumping ==
  Executing /\ type(Fetched) = "Jump" /\ HasValue(C32_JumpTargets)
C32_Resuming ==
  /\ runState = "walking"
  /\ Len(cpus) >= 2
  /\ Top.stop
  /\ Caller.wait.kind = "jump"
\* The walker `parent`, at the jump `i` with `remaining` targets left, has
\* started the copy `child` for one of them: the reference to that target
\* is recorded and the copy stands at the target in the subroutine, state
\* and stateChange of the parent.
C32_Explores(i, parent, remaining, child) ==
  /\ child.pc \in remaining
  /\ references' = references \cup {<<i.pc, child.pc, parent.subroutinePC>>}
  /\ child.subroutinePC = parent.subroutinePC
  /\ child.state = parent.state
  /\ child.stateChange = parent.stateChange
  /\ ~child.stop

\* C32: at a jump with resolved targets the walker records, for each
\* target, the reference (jump pc, target, current subroutine) and explores
\* the target in the same subroutine with its state and stateChange, one
\* target after the other; no subroutine is registered; when every target
\* has been explored the walker stops.  In the image reset: jmp reset the
\* run therefore ends with one instruction and the one reference
\* ($8000, $8000, $8000).
C32_JumpExploresTargets ==
  [][/\ C32_Jumping =>
          /\ DOMAIN subroutines' = DOMAIN subroutines
          /\ IF Value(C32_JumpTargets) = {}
             THEN Len(cpus') = Len(cpus) /\ TopAfter.stop
             ELSE /\ Len(cpus') = Len(cpus) + 1
                  /\ cpus'[Len(cpus)].wait.targets = Value(C32_JumpTargets)
                  /\ cpus'[Len(cpus)].wait.remaining =
                       Value(C32_JumpTargets) \ {cpus'[Len(cpus')].pc}
                  /\ C32_Explores(Fetched, Top, Value(C32_JumpTargets),
                                  cpus'[Len(cpus')])
     /\ C32_Resuming =>
          /\ DOMAIN subroutines' = DOMAIN subroutines
          /\ IF Caller.wait.remaining = {}
             THEN /\ Len(cpus') = Len(cpus) - 1
                  /\ CallerAfter.stop
                  /\ references' = references
                  /\ \A t \in Caller.wait.targets :
                       <<Caller.wait.instruction.pc, t, Caller.subroutinePC>>
                         \in references
             ELSE /\ Len(cpus') = Len(cpus)
                  /\ CallerAfter.wait.remaining =
                       Caller.wait.remaining \ {cpus'[Len(cpus')].pc}
                  /\ C32_Explores(Caller.wait.instruction, Caller,
                                  Caller.wait.remaining, cpus'[Len(cpus')])
     /\ (/\ rom = InfiniteLoopROM
         /\ entryPoints = InitialEntryPoints(rom)
         /\ assertions = EmptyMap
         /\ runState = "walking"
         /\ runState' = "done") =>
          /\ DOMAIN instructions' = {<<\H8000, \H8000, DefaultState>>}
          /\ references' = {<<\H8000, \H8000, \H8000>>}
    ]_vars

\* C32 witness: in the image reset: jmp ($9000) with the jump table of
\* $8000 defined as $8100, $8200, the copies for both targets have run in
\* the subroutine reset and the jumping walker has stopped.
C32_Witness ==
  /\ rom = IndirectJumpROM
  /\ runState = "walking"
  /\ Len(cpus) = 1
  /\ Top.stop
  /\ Top.subroutinePC = \H8000
  /\ {<<\H8000, \H8100, \H8000>>, <<\H8000, \H8200, \H8000>>}
       \subseteq references
  /\ \E a, b \in 1..Len(executed) :
       /\ executed[a][1] = \H8100 /\ executed[a][2] = \H8000
       /\ executed[b][1] = \H8200 /\ executed[b][2] = \H8000
  /\ DOMAIN subroutines \cap {\H8100, \H8200} = {}

\* The call that entered the subroutine the top walker is in: the call the
\* topmost walker below it is in the middle of (none for an entry point).
C33_Callers ==
  {k \in 1..(Len(cpus) - 1) : cpus[k].wait.kind = "call"}
C33_EnteringCall ==
  cpus[CHOOSE k \in C33_Callers : \A j \in C33_Callers : j <= k]
    .wait.instruction

\* C33: an RTS or RTL is a standard return only when the entries it pops
\* are the return address pushed by the call that entered the current
\* subroutine (each popped entry was produced by that call instruction); so
\* a subroutine that pops its own return address and then returns is
\* reported with StackManipulation.
C33_StandardReturnPopsOwnAddress ==
  [][(C13_Returning /\ C13_Consistent) =>
       /\ C33_Callers /= {}
       /\ \A k \in 1..C13_Size :
            CellAbove(k).instruction = Some(Identity(C33_EnteringCall))
    ]_vars

\* A whole run as one value: the derived data, the walkers and the entry
\* points still to walk, in the order Analysis::run iterates them.  RunNext
\* is the next step of the run (the steps WalkEntryPoint, Step, Return and
\* EntryPointDone take), the targets of a call or jump being taken in
\* ascending order; RunWalk repeats it until nothing changes.
RunWorld(s, cpu) ==
  [instructions |-> s.instructions, subroutines |-> s.subroutines,
   references |-> s.references, jumpTables |-> s.jumpTables,
   executed |-> s.executed, recorded |-> s.recorded,
   cpu |-> cpu, child |-> Nullopt, result |-> Nullopt]
RunPick(ws) ==
  CHOOSE w \in ws :
    \A v \in ws :
      (HasValue(w.child) /\ HasValue(v.child)) =>
        Value(w.child).pc <= Value(v.child).pc
RunCommit(s, w, below) ==
  [s EXCEPT !.instructions = w.instructions,
            !.subroutines = w.subroutines,
            !.references = w.references,
            !.jumpTables = w.jumpTables,
            !.executed = w.executed,
            !.recorded = w.recorded,
            !.cpus = below \o <<w.cpu>> \o
                     (IF HasValue(w.child) THEN <<Value(w.child)>> ELSE <<>>)]
RunNext(s) ==
  LET n == Len(s.cpus)
  IN IF n = 0
     THEN IF s.pending = <<>> THEN s
          ELSE LET e == entryPoints[Head(s.pending)]
               IN [s EXCEPT
                     !.subroutines = addSubroutine(@, e.pc, Some(e.label), TRUE),
                     !.cpus = <<CPU(e.pc, e.pc, e.state)>>,
                     !.pending = Tail(@)]
     ELSE IF ~s.cpus[n].stop
     THEN CHOOSE next \in
            {RunCommit(s, w, SubSeq(s.cpus, 1, n - 1)) :
               w \in {RunPick(Outcomes(step(RunWorld(s, s.cpus[n]))))}} : TRUE
     ELSE IF n = 1 THEN [s EXCEPT !.cpus = <<>>]
     ELSE CHOOSE next \in
            {RunCommit(s, w, SubSeq(s.cpus, 1, n - 2)) :
               w \in {RunPick(Outcomes(RunWorld(s, s.cpus[n - 1])))}} : TRUE
RECURSIVE RunWalk(_)
RunWalk(s) ==
  CHOOSE end \in {IF next = s THEN s ELSE RunWalk(next) :
                    next \in {RunNext(s)}} : TRUE
\* The run over the current ROM and user data that walks the entry points in
\* the order `order`.
RunInOrder(order) ==
  RunWalk([instructions |-> EmptyMap, subroutines |-> EmptyMap,
            references |-> {}, jumpTables |-> jumpTables,
            executed |-> <<>>, recorded |-> {}, cpus |-> <<>>,
            pending |-> order])
\* The orders in which the entry-point set can be iterated.
EntryPointOrders ==
  LET n == Cardinality(DOMAIN entryPoints)
  IN {o \in [1..n -> DOMAIN entryPoints] :
        \A a, b \in 1..n : o[a] = o[b] => a = b}
\* The derived data of a run: the instruction index, the known and unknown
\* state changes of each subroutine, the references.
C34_Derived(s) ==
  <<{<<id, s.instructions[id].opcode, s.instructions[id].argument>> :
       id \in DOMAIN s.instructions},
    [pc \in DOMAIN s.subroutines |->
       <<s.subroutines[pc].knownStateChanges,
         s.subroutines[pc].unknownStateChanges>>],
    s.references>>

\* C34: the derived data a run produces (instruction index, known and
\* unknown state changes of each subroutine, references) is the same for
\* every order in which the entry points are iterated: whenever a run
\* starts, the runs over the current ROM and user data that differ only in
\* the order of the entry points end with the same derived data.
C34_EntryPointOrderIrrelevant ==
  [][(runState \in {"idle", "done"} /\ runState' = "walking") =>
       \A o1, o2 \in EntryPointOrders :
         C34_Derived(RunInOrder(o1)) = C34_Derived(RunInOrder(o2))
    ]_vars

\* Every run the walk actions take ends with the derived data RunInOrder gives
\* for one of the orders.
C34_RunIsOneOrder ==
  [][(runState = "walking" /\ runState' = "done") =>
       \E o \in EntryPointOrders :
         C34_Derived(RunInOrder(o)) =
           C34_Derived([instructions |-> instructions,
                        subroutines |-> subroutines,
                        references |-> references])
    ]_vars

(***************************************************************************)
(* An edit made and undone between runs.  undoCase holds the point of the  *)
(* sequence run; edit; run; undo; run that has been reached (phase), the   *)
(* order in which Analysis::run iterates the entry points, the same in the *)
(* three runs, and the derived data of the first run.                      *)
(***************************************************************************)
UndoCase(phase, order, site, first) ==
  [phase |-> phase, order |-> order, site |-> site, first |-> first]

\* Analysis::Analysis(rom), before the first run.
UndoInit ==
  /\ rom \in ROMs
  /\ entryPoints = InitialEntryPoints(rom)
  /\ assertions = EmptyMap
  /\ comments = EmptyMap
  /\ customLabels = EmptyMap
  /\ jumpTables = EmptyMap
  /\ instructions = EmptyMap
  /\ subroutines = EmptyMap
  /\ references = {}
  /\ cpus = <<>>
  /\ pending = {}
  /\ runState = "idle"
  /\ runs = 0
  /\ edits = 0
  /\ executed = <<>>
  /\ recorded = {}
  /\ stackCase = Nullopt
  /\ romCase = Nullopt
  /\ changeCase = Nullopt
  /\ \E order \in EntryPointOrders :
       undoCase = UndoCase("start", order, Nullopt, Nullopt)

\* The derived data a run leaves: instructions, subroutines, references.
UndoDerived(index, subs, refs) == <<index, subs, refs>>

\* Analysis::run as a whole: clear(), the walk of every entry point, and
\* generateLocalLabels().  A walk that never stops leaves the run in
\* progress; a throw in generateLocalLabels ends it by the exception.
UndoRun ==
  /\ undoCase.phase \in {"start", "edited", "undone"}
  /\ \E s \in {RunInOrder(undoCase.order)} :
     LET all == LabelledReferences(s.references, s.subroutines)
         bad == ThrowingReferences(s.references, s.subroutines)
         after == CASE undoCase.phase = "start" -> "ran"
                    [] undoCase.phase = "edited" -> "reran"
                    [] undoCase.phase = "undone" -> "final"
     IN /\ subroutines' = s.subroutines
        /\ references' = s.references
        /\ jumpTables' = s.jumpTables
        /\ executed' = s.executed
        /\ recorded' = s.recorded
        /\ cpus' = s.cpus
        /\ pending' = {s.pending[k] : k \in 1..Len(s.pending)}
        /\ IF s.cpus /= <<>>
           THEN /\ instructions' = s.instructions
                /\ runState' = "walking"
                /\ undoCase' = [undoCase EXCEPT !.phase = "hung"]
           ELSE IF bad /= {}
           THEN /\ \E before \in SUBSET (all \ bad) :
                     instructions' =
                       AssignLocalLabels(s.instructions, s.subroutines, before)
                /\ runState' = "crashed"
                /\ undoCase' = [undoCase EXCEPT !.phase = "crashed"]
           ELSE /\ instructions' =
                     AssignLocalLabels(s.instructions, s.subroutines, all)
                /\ runState' = "done"
                /\ undoCase' =
                     [undoCase EXCEPT
                        !.phase = after,
                        !.first =
                           IF undoCase.phase = "start"
                           THEN Some(UndoDerived(instructions', subroutines',
                                                 references'))
                           ELSE @]
  /\ runs' = runs + 1
  /\ UNCHANGED <<rom, entryPoints, assertions, comments, customLabels, edits,
                 stackCase, romCase,
                 changeCase>>

\* Analysis::addAssertion, after the first run, at a site without one.
UndoAddAssertion ==
  /\ undoCase.phase = "ran"
  /\ \E site \in AssertionSites, t \in {"Instruction", "Subroutine"},
        sc \in AssertedChanges :
       /\ site \notin DOMAIN assertions
       /\ assertions' = Put(assertions, site, Assertion(t, sc))
       /\ undoCase' = [undoCase EXCEPT !.phase = "edited",
                                       !.site = Some(<<"assertion", site>>)]
  /\ edits' = edits + 1
  /\ UNCHANGED <<rom, comments, customLabels, entryPoints, jumpTables,
                 instructions, subroutines, references, cpus, pending,
                 runState, runs, executed, recorded, stackCase, romCase,
                 changeCase>>

\* Analysis::removeAssertion of the assertion added.
UndoRemoveAssertion ==
  /\ undoCase.phase = "reran"
  /\ HasValue(undoCase.site)
  /\ Value(undoCase.site)[1] = "assertion"
  /\ LET site == Value(undoCase.site)[2]
     IN assertions' = [k \in DOMAIN assertions \ {site} |-> assertions[k]]
  /\ undoCase' = [undoCase EXCEPT !.phase = "undone"]
  /\ edits' = edits + 1
  /\ UNCHANGED <<rom, comments, customLabels, entryPoints, jumpTables,
                 instructions, subroutines, references, cpus, pending,
                 runState, runs, executed, recorded, stackCase, romCase,
                 changeCase>>

\* Analysis::defineJumpTable, after the first run, at a site whose table is
\* Unknown.
UndoDefineJumpTable ==
  /\ undoCase.phase = "ran"
  /\ \E callerPC \in DOMAIN jumpTables, range \in {<<0, 0>>, <<0, 2>>},
        status \in {"Partial", "Complete"} :
       /\ jumpTables[callerPC] = UnknownJumpTable
       /\ HasValue(anyInstruction(instructions, callerPC))
       /\ jumpTables' =
            Put(jumpTables, callerPC,
                [status |-> status,
                 targets |->
                    JumpTableTargets(
                      rom, Value(anyInstruction(instructions, callerPC)),
                      range)])
       /\ undoCase' = [undoCase EXCEPT !.phase = "edited",
                                       !.site =
                                         Some(<<"table",
                                                [callerPC |-> callerPC,
                                                 range |-> range,
                                                 status |-> status]>>)]
  /\ edits' = edits + 1
  /\ UNCHANGED <<rom, comments, customLabels, entryPoints, assertions,
                 instructions, subroutines, references, cpus, pending,
                 runState, runs, executed, recorded, stackCase, romCase,
                 changeCase>>

\* The ranges a table is defined over a second time: one pointer, two, the
\* second alone, an odd length, and first > second.
UndoRanges == {<<0, 0>>, <<0, 2>>, <<2, 2>>, <<0, 3>>, <<2, 0>>}

\* A faulty Analysis::defineJumpTable, for comparison: without
\* jumpTable.targets.clear().
UndoRedefineJumpTable_Retaining ==
  /\ undoCase.phase = "edited"
  /\ HasValue(undoCase.site)
  /\ Value(undoCase.site)[1] = "table"
  /\ \E range \in UndoRanges, status \in {"Partial", "Complete"} :
       LET callerPC == Value(undoCase.site)[2].callerPC
       IN /\ HasValue(anyInstruction(instructions, callerPC))
          /\ jumpTables' =
               Put(jumpTables, callerPC,
                   [status |-> status,
                    targets |->
                       JumpTableTargets(
                         rom, Value(anyInstruction(instructions, callerPC)),
                         range) @@ jumpTables[callerPC].targets])
          /\ undoCase' = [undoCase EXCEPT
                            !.phase = "redefined",
                            !.site = Some(<<"table",
                                            [callerPC |-> callerPC,
                                             range |-> range,
                                             status |-> status]>>)]
  /\ edits' = edits + 1
  /\ UNCHANGED <<rom, comments, customLabels, entryPoints, assertions,
                 instructions, subroutines, references, cpus, pending,
                 runState, runs, executed, recorded, stackCase, romCase,
                 changeCase>>

\* Analysis::defineJumpTable at a site whose table is defined already, in
\* place of the second run.
UndoRedefineJumpTable ==
  /\ undoCase.phase = "edited"
  /\ HasValue(undoCase.site)
  /\ Value(undoCase.site)[1] = "table"
  /\ \E range \in UndoRanges, status \in {"Partial", "Complete"} :
       LET callerPC == Value(undoCase.site)[2].callerPC
       IN /\ HasValue(anyInstruction(instructions, callerPC))
          /\ jumpTables' =
               Put(jumpTables, callerPC,
                   [status |-> status,
                    targets |->
                       JumpTableTargets(
                         rom, Value(anyInstruction(instructions, callerPC)),
                         range)])
          /\ undoCase' = [undoCase EXCEPT
                            !.phase = "redefined",
                            !.site = Some(<<"table",
                                            [callerPC |-> callerPC,
                                             range |-> range,
                                             status |-> status]>>)]
  /\ edits' = edits + 1
  /\ UNCHANGED <<rom, comments, customLabels, entryPoints, assertions,
                 instructions, subroutines, references, cpus, pending,
                 runState, runs, executed, recorded, stackCase, romCase,
                 changeCase>>

\* Analysis::undefineJumpTable of the table defined.
UndoUndefineJumpTable ==
  /\ undoCase.phase = "reran"
  /\ HasValue(undoCase.site)
  /\ Value(undoCase.site)[1] = "table"
  /\ jumpTables' = Put(jumpTables, Value(undoCase.site)[2].callerPC,
                    UnknownJumpTable)
  /\ undoCase' = [undoCase EXCEPT !.phase = "undone"]
  /\ edits' = edits + 1
  /\ UNCHANGED <<rom, comments, customLabels, entryPoints, assertions,
                 instructions, subroutines, references, cpus, pending,
                 runState, runs, executed, recorded, stackCase, romCase,
                 changeCase>>

UndoNext ==
  \/ UndoRun
  \/ UndoAddAssertion
  \/ UndoRemoveAssertion
  \/ UndoDefineJumpTable
  \/ UndoRedefineJumpTable
  \/ UndoUndefineJumpTable

UndoSpec == UndoInit /\ [][UndoNext]_vars

\* C35: undoing a user edit and re-running restores the derived data: the
\* sequence run; addAssertion; run; removeAssertion; run, and likewise run;
\* defineJumpTable; run; undefineJumpTable; run, goes through (each of its
\* runs returns) and ends with the instructions, subroutines and references
\* of the first run.
C35_UndoRestoresDerivedData ==
  undoCase /= Nullopt =>
    /\ HasValue(undoCase.first) => undoCase.phase \notin {"hung", "crashed"}
    /\ undoCase.phase = "final" =>
         UndoDerived(instructions, subroutines, references)
           = Value(undoCase.first)

\* When the three runs of the sequence return, the last one ends with the
\* derived data of the first.
C35_RestoredWhenRunsReturn ==
  (undoCase /= Nullopt /\ undoCase.phase = "final") =>
    UndoDerived(instructions, subroutines, references) = Value(undoCase.first)

(***************************************************************************)
(* The caller across a call                                                *)
(***************************************************************************)
\* The top walker executes in this step a call whose targets are resolved.
C36_Calling ==
  /\ Executing
  /\ type(Fetched) = "Call"
  /\ HasValue(computeJumpTargets(jumpTables, Fetched)[1])
\* The copy of a call's target has stopped and the caller resumes.
C36_Resuming ==
  /\ runState = "walking"
  /\ Len(cpus) >= 2
  /\ Top.stop
  /\ Caller.wait.kind = "call"
\* The members of a walker that a call leaves alone.
C36_SameFrame(a, b) ==
  /\ a.stack = b.stack
  /\ a.subroutinePC = b.subroutinePC
  /\ a.stateInference = b.stateInference
  /\ a.pc = b.pc
\* A flag of the caller is either as before the step, in state and in
\* stateChange, or was assigned by applyStateChange to both.
C36_FlagPropagated(before, after, changeBefore, changeAfter) ==
  \/ after = before /\ changeAfter = changeBefore
  \/ changeAfter = Some(after)

\* C36: a call starts its copy with the caller's pc past the call
\* instruction and the caller's stack, subroutinePC, state and stateChange
\* as they were; while the copy and the walkers it starts run, the caller
\* is not altered at all; when a copy has stopped the caller has the stack,
\* subroutinePC, stateInference and pc it had, and its state and
\* stateChange are altered only once the last copy has stopped, flag by
\* flag and together, by the propagation.
C36_CallLeavesCallerFrame ==
  [][/\ C36_Calling =>
          /\ Len(cpus') = Len(cpus) + 1
          /\ cpus'[Len(cpus)].wait.kind = "call"
          /\ cpus'[Len(cpus)].pc = WrapU24(Top.pc + size(Fetched))
          /\ cpus'[Len(cpus)].stack = Top.stack
          /\ cpus'[Len(cpus)].subroutinePC = Top.subroutinePC
          /\ cpus'[Len(cpus)].state = Top.state
          /\ cpus'[Len(cpus)].stateChange = Top.stateChange
          /\ cpus'[Len(cpus')].stateInference =
               cpus'[Len(cpus)].stateInference
          /\ cpus'[Len(cpus')].stack /= Top.stack
     /\ \A k \in 1..(Len(cpus) - 1) :
          (/\ runState = "walking"
           /\ cpus[k].wait.kind = "call"
           /\ ~(k = Len(cpus) - 1 /\ Top.stop)) =>
            k <= Len(cpus') /\ cpus'[k] = cpus[k]
     /\ C36_Resuming =>
          /\ C36_SameFrame(CallerAfter, Caller)
          /\ Caller.wait.remaining /= {} =>
               /\ CallerAfter.state = Caller.state
               /\ CallerAfter.stateChange = Caller.stateChange
          /\ Caller.wait.remaining = {} =>
               /\ Len(cpus') = Len(cpus) - 1
               /\ C36_FlagPropagated(StateM(Caller.state),
                                     StateM(CallerAfter.state),
                                     Caller.stateChange.m,
                                     CallerAfter.stateChange.m)
               /\ C36_FlagPropagated(StateX(Caller.state),
                                     StateX(CallerAfter.state),
                                     Caller.stateChange.x,
                                     CallerAfter.stateChange.x)
               /\ CallerAfter.state /= Caller.state =>
                    CallerAfter.stateChange /= Caller.stateChange
    ]_vars

\* C36 witness: in the image sep #$30 / jsr $800E / ... with $800E:
\* rep #$30 / rts, the callee has run and stopped and the caller stands
\* after the jsr with an empty stack, its own subroutinePC, and the state
\* m = 0, x = 0 that the propagation gave it.
C36_Witness ==
  /\ rom = StateChangeROM
  /\ runState = "walking"
  /\ Len(cpus) = 1
  /\ Top.pc = \H8005
  /\ Top.subroutinePC = \H8000
  /\ Top.stack = EmptyStack
  /\ Top.state = StateOf(FALSE, FALSE)
  /\ Top.stateChange = StateChange(Some(FALSE), Some(FALSE))
  /\ \E k \in 1..Len(executed) : executed[k][1] = \H8010

(***************************************************************************)
(* Straight-line succession in the instruction index                       *)
(***************************************************************************)
\* The state the walker has after instruction i, for the types that leave
\* it alone and for SEP / REP.
C37_StateAfter(i) ==
  IF type(i) /= "SepRep" THEN i.state
  ELSE IF operation(i) = "SEP"
       THEN StateSet(i.state, Value(absoluteArgument(i)))
       ELSE StateReset(i.state, Value(absoluteArgument(i)))
\* The identity of the instruction that follows i in a straight line.
C37_Successor(i) ==
  <<WrapU24(i.pc + size(i)), i.subroutinePC, C37_StateAfter(i)>>
\* The indexed instructions the walker goes on from in a straight line.
C37_StraightLine(index) ==
  {id \in DOMAIN index :
     LET i == InstructionAt(index, id)
     IN /\ type(i) \in {"Other", "Push", "SepRep"}
        /\ ~isRAM(WrapU24(i.pc + size(i)))}

\* C37: once a run is over, every indexed instruction of type Other, Push
\* or SepRep whose end is not in RAM is followed in the index by an
\* instruction at pc + size, of the same subroutine, decoded from the ROM
\* under the state the instruction leaves (its own state, or for SEP / REP
\* its own state with the operand's bits set or cleared), and the
\* subroutine files an instruction at that pc.
C37_IndexClosedUnderSuccession ==
  runState = "done" =>
    \A id \in C37_StraightLine(instructions) :
      LET next == C37_Successor(InstructionAt(instructions, id))
      IN /\ next \in DOMAIN instructions
         /\ instructions[next].opcode = readByte(rom, next[1])
         /\ instructions[next].argument = readAddress(rom, next[1] + 1)
         /\ next[2] \in DOMAIN subroutines
         /\ next[1] \in DOMAIN subroutines[next[2]].instructions

\* C37 witness: after the run of the image whose subroutine $800E is
\* rep #$30 / rts, entered with m = x = 1, the index holds the rep #$30
\* under that state and the rts at $8010 under the state m = x = 0.
C37_Witness ==
  /\ rom = StateChangeROM
  /\ runState = "done"
  /\ <<\H800E, \H800E, DefaultState>> \in C37_StraightLine(instructions)
  /\ C37_Successor(InstructionAt(instructions,
                                 <<\H800E, \H800E, DefaultState>>)) =
       <<\H8010, \H800E, StateOf(FALSE, FALSE)>>
  /\ <<\H8010, \H800E, StateOf(FALSE, FALSE)>> \in DOMAIN instructions

(***************************************************************************)
(* The table a definition leaves                                           *)
(***************************************************************************)
\* This step is a defineJumpTable, and its arguments.
C38_Defining ==
  /\ undoCase /= Nullopt
  /\ undoCase.phase \in {"ran", "edited"}
  /\ undoCase'.phase \in {"edited", "redefined"}
  /\ edits' = edits + 1
  /\ Value(undoCase'.site)[1] = "table"
C38_Arguments == Value(undoCase'.site)[2]
\* The keys start, start + 2, ... not beyond end.
C38_Keys(start, end) == {start + 2 * k : k \in 0..((end - start) \div 2)}
\* The pointer the ROM holds for key x of the table of the caller at pc
\* with operand `operand`, joined with the bank of the caller.
C38_Pointer(pc, operand, x) ==
  LET bank == (pc \div 65536) * 65536
      at == BitOr(bank, operand + x)
  IN BitOr(bank, readByte(rom, at) + 256 * readByte(rom, at + 1))
\* The table is the one a definition over [start, end] with `status` gives.
C38_Defined(table, pc, start, end, status) ==
  /\ table.status = status
  /\ DOMAIN table.targets = C38_Keys(start, end)
  /\ \A x \in DOMAIN table.targets :
       table.targets[x] = C38_Pointer(pc, readWord(rom, pc + 1), x)

\* C38: after defineJumpTable(callerPC, [start, end], status) the table at
\* callerPC has the status given and exactly the keys start, start + 2, ...
\* up to end, each key x mapped to the 16-bit pointer the ROM holds at
\* operand + x in the bank of the caller, joined with that bank; the keys
\* of an earlier definition that the range does not have are gone, and the
\* other tables are as before.
C38_DefinedTableIsTheRange ==
  [][C38_Defining =>
       LET a == C38_Arguments
       IN /\ DOMAIN jumpTables' = DOMAIN jumpTables
          /\ C38_Defined(jumpTables'[a.callerPC], a.callerPC,
                         a.range[1], a.range[2], a.status)
          /\ \A x \in DOMAIN jumpTables[a.callerPC].targets :
               x \notin C38_Keys(a.range[1], a.range[2]) =>
                 x \notin DOMAIN jumpTables'[a.callerPC].targets
          /\ \A other \in DOMAIN jumpTables \ {a.callerPC} :
               jumpTables'[other] = jumpTables[other]
    ]_vars

\* C38 witness: the table of jmp ($9000) at $8000, defined over [0, 2] and
\* then over [2, 2] as Partial, holds the key 2 alone, mapped to the
\* pointer $8200 read at $9002.
C38_Witness ==
  /\ rom = IndirectJumpROM
  /\ undoCase /= Nullopt
  /\ undoCase.phase = "redefined"
  /\ edits = 2
  /\ Value(undoCase.site)[2] =
       [callerPC |-> \H8000, range |-> <<2, 2>>, status |-> "Partial"]
  /\ jumpTables[\H8000].status = "Partial"
  /\ jumpTables[\H8000].targets = (2 :> \H8200)

(***************************************************************************)
(* Returns that pop slots never pushed                                     *)
(***************************************************************************)
\* The slots the return of this step pops, and those among them that no
\* push has written.
C39_Slots == {(Top.stack.pointer + k) % 65536 : k \in 1..C13_Size}
C39_NeverPushed == C39_Slots \ DOMAIN Top.stack.memory
\* The return of this step pops at least one slot that was never pushed.
C39_Underflowing == C13_Returning /\ C39_NeverPushed /= {}
\* Stack::pop over such slots returns, with an entry for each slot popped,
\* empty for the slots never pushed.
C39_PopYieldsEmptyEntries ==
  LET popped == pop(Top.stack, C13_Size)
  IN /\ Len(popped[1]) = C13_Size
     /\ \A k \in 1..C13_Size :
          (Top.stack.pointer + k) % 65536 \in C39_NeverPushed =>
            /\ popped[1][k] = EmptyStackEntry
            /\ ~HasValue(popped[1][k].instruction)
            /\ ~HasValue(popped[1][k].data)
     /\ popped[2].pointer = (Top.stack.pointer + C13_Size) % 65536
     /\ popped[2].memory = Top.stack.memory

\* C39 (as stated): popping slots that were never pushed does not fail and
\* yields empty entries, and an RTS or RTL that pops such a slot is
\* recorded as an unknown state change with reason StackManipulation, not
\* as a known one, and stops the walker.
C39_UnderflowIsManipulation ==
  [][C39_Underflowing =>
       /\ C39_PopYieldsEmptyEntries
       /\ Len(cpus') = Len(cpus)
       /\ TopAfter.stack = pop(Top.stack, C13_Size)[2]
       /\ C13_Manipulated
       /\ TopAfter.stop
    ]_vars

\* C39 (amended): popping slots that were never pushed does not fail and
\* yields empty entries; an RTS or RTL that pops such a slot is never a
\* standard return of the walker's stateChange: when no assertion exists at
\* the return's pc in the current subroutine it is recorded as an unknown
\* state change with reason StackManipulation and stops the walker; when a
\* Subroutine-typed assertion exists there the asserted delta is recorded as
\* known and the walker stops; when an Instruction-typed one exists nothing
\* is recorded and the walker goes on.
C39_UnderflowIsManipulationUnlessAsserted ==
  [][C39_Underflowing =>
       /\ C39_PopYieldsEmptyEntries
       /\ Len(cpus') = Len(cpus)
       /\ TopAfter.stack = pop(Top.stack, C13_Size)[2]
       /\ ~C13_Consistent
       /\ AssertionAt(Top.pc, Top.subroutinePC) = "None" =>
            C13_Manipulated /\ TopAfter.stop
       /\ AssertionAt(Top.pc, Top.subroutinePC) = "Subroutine" =>
            /\ C13_SubAfter.knownStateChanges =
                 Put(C13_Sub.knownStateChanges, Top.pc,
                     assertions[<<Top.pc, Top.subroutinePC>>].stateChange)
            /\ C13_SubAfter.unknownStateChanges = C13_Sub.unknownStateChanges
            /\ TopAfter.stop
       /\ AssertionAt(Top.pc, Top.subroutinePC) = "Instruction" =>
            /\ C13_SubAfter.knownStateChanges = C13_Sub.knownStateChanges
            /\ C13_SubAfter.unknownStateChanges = C13_Sub.unknownStateChanges
            /\ ~TopAfter.stop
    ]_vars

\* C39 witness: the walker of the entry point nmi = $8010, whose first
\* instruction is an rts, has popped two slots of its empty stack and has
\* stopped; the subroutine holds StackManipulation at $8010 and no known
\* state change.
C39_Witness ==
  /\ rom = SharedEntryROM
  /\ runState = "walking"
  /\ assertions = EmptyMap
  /\ Len(cpus) = 1
  /\ Top.stop
  /\ Top.subroutinePC = \H8010
  /\ subroutines[\H8010].isEntryPoint
  /\ Top.stack = [pointer |-> InitialPointer + 2, memory |-> EmptyMap]
  /\ subroutines[\H8010].unknownStateChanges =
       (\H8010 :> StateChangeUnknown("StackManipulation"))
  /\ subroutines[\H8010].knownStateChanges = EmptyMap

(***************************************************************************)
(* StateChanges compared.  changeCase holds two StateChanges a and b,      *)
(* whether set / reset has been applied to a, and, once they have been     *)
(* compared, what operator== and the equality of the hashes gave.          *)
(***************************************************************************)
ChangeCase(a, b, touched, compared) ==
  [a |-> a, b |-> b, touched |-> touched, compared |-> compared]

\* The values the three constructors of StateChange give.
ConstructedChanges ==
  {EmptyStateChange}
    \cup {StateChangeUnknown(reason) : reason \in UnknownReasons}
    \cup {StateChange(m, x) : m, x \in {Nullopt, Some(FALSE), Some(TRUE)}}

\* hash_value(const StateChange&): the values combined into the seed, in
\* the order they are combined.
hash_value(sc) == <<sc.m, sc.x>>

ChangeInit ==
  /\ NoAnalysis
  /\ stackCase = Nullopt
  /\ romCase = Nullopt
  /\ undoCase = Nullopt
  /\ \E a, b \in ConstructedChanges :
       changeCase = ChangeCase(a, b, FALSE, Nullopt)

\* a.set(mask).
ChangeSet ==
  /\ ~changeCase.touched
  /\ ~HasValue(changeCase.compared)
  /\ \E mask \in {MaskX, MaskM, MaskX + MaskM} :
       changeCase' = [changeCase EXCEPT !.a = StateChangeSet(@, mask),
                                        !.touched = TRUE]
  /\ UNCHANGED <<analysis, stackCase, romCase, undoCase>>

\* a.reset(mask).
ChangeReset ==
  /\ ~changeCase.touched
  /\ ~HasValue(changeCase.compared)
  /\ \E mask \in {MaskX, MaskM, MaskX + MaskM} :
       changeCase' = [changeCase EXCEPT !.a = StateChangeReset(@, mask),
                                        !.touched = TRUE]
  /\ UNCHANGED <<analysis, stackCase, romCase, undoCase>>

\* a == b and hash_value(a) == hash_value(b).
ChangeCompare ==
  /\ ~HasValue(changeCase.compared)
  /\ changeCase' =
       [changeCase EXCEPT
          !.compared =
             Some([equal |-> StateChangeKey(changeCase.a)
                               = StateChangeKey(changeCase.b),
                   hashAlike |-> hash_value(changeCase.a)
                                   = hash_value(changeCase.b)])]
  /\ UNCHANGED <<analysis, stackCase, romCase, undoCase>>

ChangeNext == ChangeSet \/ ChangeReset \/ ChangeCompare

ChangeSpec == ChangeInit /\ [][ChangeNext]_vars

\* Equality as the claim has it: both Known with the same m and x, or both
\* unknown with the same reason.
C40_SameChange(a, b) ==
  \/ ~unknown(a) /\ ~unknown(b) /\ a.m = b.m /\ a.x = b.x
  \/ unknown(a) /\ unknown(b) /\ a.unknownReason = b.unknownReason

\* C40: two StateChanges compare equal, and hash alike, exactly when both
\* are Known with the same m and x or both are unknown with the same
\* reason: a Known change never equals an unknown one, and the m and x of
\* unknown changes play no part.
C40_EqualityByKindAndReason ==
  (changeCase /= Nullopt /\ HasValue(changeCase.compared)) =>
    /\ Value(changeCase.compared).equal
         = C40_SameChange(changeCase.a, changeCase.b)
    /\ C40_SameChange(changeCase.a, changeCase.b) =>
         Value(changeCase.compared).hashAlike

\* What operator== and hash_value do: two StateChanges compare equal, and
\* hash alike, exactly when they have the same m and x, whatever their
\* reasons.
C40_EqualityByFlagsAlone ==
  (changeCase /= Nullopt /\ HasValue(changeCase.compared)) =>
    /\ Value(changeCase.compared).equal
         = (changeCase.a.m = changeCase.b.m /\ changeCase.a.x = changeCase.b.x)
    /\ Value(changeCase.compared).hashAlike = Value(changeCase.compared).equal

====
